---------------------------- MODULE Spec2Model ----------------------------
(***************************************************************************)
(* Frame Codex viewer (framersai/frame.dev): the knowledge-tree builder,   *)
(* the tree fetch of useGithubTree, the directory / file fetches of the    *)
(* viewer and the strand cache.                                            *)
(*                                                                         *)
(* Strings that the code takes apart (paths, file names) are sequences of  *)
(* one-character strings, so that split, join, toLowerCase and the         *)
(* extension test are computed and not assumed.                            *)
(***************************************************************************)
EXTENDS Naturals, Integers, Sequences, FiniteSets, TLC

(***************************************************************************)
(* Bounds of the model.                                                    *)
(***************************************************************************)
\* longest list of repository items handed to buildKnowledgeTree
MaxItems == 3

\* null for an error state
NoError == "null"

(***************************************************************************)
(* Text helpers.                                                           *)
(***************************************************************************)
\* UTF-16 code unit of the characters the model uses (String ordering)
CharCode(c) ==
  CASE c = "." -> 46 [] c = "/" -> 47
    [] c = "D" -> 68 [] c = "M" -> 77 [] c = "R" -> 82
    [] c = "a" -> 97 [] c = "b" -> 98 [] c = "d" -> 100 [] c = "e" -> 101
    [] c = "i" -> 105 [] c = "v" -> 118
    [] c = "m" -> 109
    [] c = "n" -> 110 [] c = "r" -> 114 [] c = "s" -> 115 [] c = "t" -> 116
    [] c = "w" -> 119 [] c = "x" -> 120
    [] OTHER -> 0

\* String.prototype.toLowerCase on one character
LowerChar(c) ==
  CASE c = "D" -> "d" [] c = "M" -> "m" [] c = "R" -> "r" [] OTHER -> c

\* String.prototype.toLowerCase
ToLowerCase(s) == [i \in 1..Len(s) |-> LowerChar(s[i])]

\* s.endsWith(suffix)
EndsWith(s, suffix) ==
  /\ Len(s) >= Len(suffix)
  /\ SubSeq(s, Len(s) - Len(suffix) + 1, Len(s)) = suffix

\* a < b in code-unit lexicographic order
RECURSIVE StrLess(_, _)
StrLess(a, b) ==
  IF b = <<>> THEN FALSE
  ELSE IF a = <<>> THEN TRUE
  ELSE IF CharCode(Head(a)) # CharCode(Head(b))
       THEN CharCode(Head(a)) < CharCode(Head(b))
       ELSE StrLess(Tail(a), Tail(b))

\* path.split('/')
RECURSIVE SplitFrom(_, _, _)
SplitFrom(s, i, cur) ==
  IF i > Len(s) THEN <<cur>>
  ELSE IF s[i] = "/" THEN <<cur>> \o SplitFrom(s, i + 1, <<>>)
  ELSE SplitFrom(s, i + 1, Append(cur, s[i]))

Split(s) == SplitFrom(s, 1, <<>>)

\* segments.join('/')
RECURSIVE Join(_)
Join(segs) ==
  IF segs = <<>> THEN <<>>
  ELSE IF Len(segs) = 1 THEN segs[1]
  ELSE segs[1] \o <<"/">> \o Join(Tail(segs))

\* the markdown extensions, MARKDOWN_EXTENSIONS
MARKDOWN_EXTENSIONS == { <<".", "m", "d">>, <<".", "m", "d", "x">> }

\* isMarkdownFile(name): .md / .mdx extension, case-insensitive
isMarkdownFile(name) ==
  \E ext \in MARKDOWN_EXTENSIONS : EndsWith(ToLowerCase(name), ext)

(***************************************************************************)
(* Repository items: the universe the inputs are drawn from.  Every path   *)
(* has one type and no blob path is a directory of another item, as in a   *)
(* Git tree listing; the listing may omit directory entries.               *)
(***************************************************************************)
P_w      == <<"w">>
P_w_a    == <<"w", "/", "a">>
P_w_a_s  == <<"w", "/", "a", "/", "s", ".", "m", "d">>
P_w_a_mx == <<"w", "/", "a", "/", "m", ".", "m", "d", "x">>
P_w_r    == <<"w", "/", "r", ".", "m", "d">>
P_w_R    == <<"w", "/", "R", ".", "M", "D">>
P_w_n    == <<"w", "/", "n", ".", "t", "x", "t">>
P_r      == <<"r", ".", "m", "d">>
P_dmd    == <<"d", ".", "m", "d">>
P_b_x    == <<"b", "/", "x", ".", "m", "d">>

\* GitTreeItem: path and type (size, sha, mode and url are never read)
GitTreeItem(path, type) == [path |-> path, type |-> type]

ItemUniverse ==
  { GitTreeItem(P_w, "tree"), GitTreeItem(P_w_a, "tree"),
    GitTreeItem(P_w_a_s, "blob"), GitTreeItem(P_w_a_mx, "blob"),
    GitTreeItem(P_w_r, "blob"), GitTreeItem(P_w_R, "blob"),
    GitTreeItem(P_w_n, "blob"), GitTreeItem(P_r, "blob"),
    GitTreeItem(P_dmd, "tree"), GitTreeItem(P_b_x, "blob") }

\* lists of exactly n items without repetition (the API lists a path once)
ListsOfLen(n) ==
  { l \in [1..n -> ItemUniverse] : \A i, j \in 1..n : i # j => l[i] # l[j] }

InputLists == UNION { ListsOfLen(n) : n \in 0..MaxItems }

\* the orderings of one list
Orderings(l) ==
  { [i \in 1..Len(l) |-> l[f[i]]] :
      f \in { g \in [1..Len(l) -> 1..Len(l)] :
                \A i, j \in 1..Len(l) : i # j => g[i] # g[j] } }

(***************************************************************************)
(* buildKnowledgeTree.                                                     *)
(***************************************************************************)
\* mutant of determineLevel: every file is a strand
determineLevelAllStrands(depth, type, name) ==
  IF type = "dir" THEN (IF depth = 1 THEN "weave" ELSE "loom") ELSE "strand"

\* level of a node from its depth under the synthetic root and its type
determineLevel(depth, type, name) ==
  IF type = "dir" THEN (IF depth = 1 THEN "weave" ELSE "loom")
  ELSE IF depth = 1 THEN "folder"
  ELSE IF isMarkdownFile(name) THEN "strand"
  ELSE "folder"

\* a freshly created node (strandCount is filled in by the post-order pass)
NewNode(name, path, type, depth) ==
  [name |-> name, path |-> path, type |-> type, children |-> <<>>,
   strandCount |-> 0, level |-> determineLevel(depth, type, name)]

\* mutant of IndexOfName: an existing child is never found
IndexOfNameNever(nodes, name) == 0

\* position of the child called name, 0 when there is none
IndexOfName(nodes, name) ==
  IF \E i \in 1..Len(nodes) : nodes[i].name = name
  THEN CHOOSE i \in 1..Len(nodes) :
         /\ nodes[i].name = name
         /\ \A j \in 1..(i - 1) : nodes[j].name # name
  ELSE 0

\* path of a child: parent.path + '/' + name
ChildPath(prefix, name) ==
  IF prefix = <<>> THEN name ELSE prefix \o <<"/">> \o name

\* walk from the root along segs, creating missing directories, and create
\* (or overwrite) the leaf with the item's type
RECURSIVE insertNode(_, _, _, _, _)
insertNode(nodes, segs, prefix, depth, type) ==
  LET name == Head(segs)
      path == ChildPath(prefix, name)
      i    == IndexOfName(nodes, name)
  IN IF Len(segs) = 1
     THEN LET leaf == [NewNode(name, path, type, depth) EXCEPT
                         !.children = IF i = 0 THEN <<>> ELSE nodes[i].children]
          IN IF i = 0 THEN Append(nodes, leaf) ELSE [nodes EXCEPT ![i] = leaf]
     ELSE LET dir  == IF i = 0 THEN NewNode(name, path, "dir", depth) ELSE nodes[i]
              dir2 == [dir EXCEPT !.children =
                         insertNode(dir.children, Tail(segs), path, depth + 1, type)]
          IN IF i = 0 THEN Append(nodes, dir2) ELSE [nodes EXCEPT ![i] = dir2]

\* the segments of a path, empty segments stripped
PathSegments(path) == SelectSeq(Split(path), LAMBDA seg : seg # <<>>)

\* node type of an item type
NodeType(itemType) == IF itemType = "blob" THEN "file" ELSE "dir"

\* insertion of one item
insertItem(nodes, item) ==
  LET segs == PathSegments(item.path)
  IN IF segs = <<>> THEN nodes
     ELSE insertNode(nodes, segs, <<>>, 1, NodeType(item.type))

\* insertion of the items in input order
RECURSIVE insertAll(_, _)
insertAll(nodes, items) ==
  IF items = <<>> THEN nodes
  ELSE insertAll(insertItem(nodes, Head(items)), Tail(items))

\* sum of strandCount over a list of nodes
RECURSIVE SumStrandCount(_)
SumStrandCount(nodes) ==
  IF nodes = <<>> THEN 0
  ELSE Head(nodes).strandCount + SumStrandCount(Tail(nodes))

\* mutant of countStrands: a directory counts its own markdown files only
RECURSIVE countStrandsShallow(_)
countStrandsShallow(node) ==
  IF node.type = "file"
  THEN [node EXCEPT !.strandCount = IF isMarkdownFile(node.name) THEN 1 ELSE 0]
  ELSE LET kids == [i \in 1..Len(node.children) |->
                      countStrandsShallow(node.children[i])]
       IN [node EXCEPT
             !.children = kids,
             !.strandCount = Cardinality({ i \in 1..Len(kids) :
                                             kids[i].type = "file"
                                             /\ kids[i].strandCount = 1 })]

\* post-order pass: a file counts 1 iff markdown, a directory the sum of
\* its children
RECURSIVE countStrands(_)
countStrands(node) ==
  IF node.type = "file"
  THEN [node EXCEPT !.strandCount = IF isMarkdownFile(node.name) THEN 1 ELSE 0]
  ELSE LET kids == [i \in 1..Len(node.children) |-> countStrands(node.children[i])]
       IN [node EXCEPT !.children = kids, !.strandCount = SumStrandCount(kids)]

\* sort comparator: directories before files, then case-insensitive by name
compareNodes(a, b) ==
  IF a.type # b.type THEN a.type = "dir"
  ELSE StrLess(ToLowerCase(a.name), ToLowerCase(b.name))

\* stable insertion of n into the sorted list
RECURSIVE insertSorted(_, _)
insertSorted(sorted, n) ==
  IF sorted = <<>> THEN <<n>>
  ELSE IF compareNodes(n, Head(sorted)) THEN <<n>> \o sorted
  ELSE <<Head(sorted)>> \o insertSorted(Tail(sorted), n)

\* stable sort of a list of nodes
RECURSIVE sortList(_)
sortList(nodes) ==
  IF nodes = <<>> THEN <<>>
  ELSE insertSorted(sortList(SubSeq(nodes, 1, Len(nodes) - 1)), nodes[Len(nodes)])

\* sort of every children list of the tree
RECURSIVE sortNodes(_)
sortNodes(nodes) ==
  sortList([i \in 1..Len(nodes) |->
              [nodes[i] EXCEPT !.children = sortNodes(nodes[i].children)]])

buildKnowledgeTree(items) ==
  LET inserted == insertAll(<<>>, items)
      counted  == [i \in 1..Len(inserted) |-> countStrands(inserted[i])]
  IN sortNodes(counted)

(***************************************************************************)
(* useGithubTree: what fetchTree does with the entries of a successful     *)
(* fetch.                                                                  *)
(***************************************************************************)
\* mutant of toItems: path taken from entry.name, the last segment
toItemsByName(entries) ==
  [i \in 1..Len(entries) |->
     GitTreeItem(Split(entries[i].path)[Len(Split(entries[i].path))],
                 entries[i].type)]

\* rawEntries.map(entry => ({path: entry.path, type: entry.type, ...}))
toItems(entries) ==
  [i \in 1..Len(entries) |-> GitTreeItem(entries[i].path, entries[i].type)]

\* mutant of sumStrands: the reduce adds 1 per node
sumStrandsCountingNodes(builtTree) == Len(builtTree)

\* builtTree.reduce((sum, node) => sum + node.strandCount, 0)
sumStrands(builtTree) == SumStrandCount(builtTree)

\* builtTree.length
countWeaves(builtTree) == Len(builtTree)

\* the values fetchTree publishes for the entries of a successful fetch
publishTree(entries) ==
  LET builtTree == buildKnowledgeTree(toItems(entries))
  IN [tree |-> builtTree,
      totalStrands |-> sumStrands(builtTree),
      totalWeaves |-> countWeaves(builtTree)]

VARIABLES
  tree,          \* useGithubTree: tree
  loading,       \* useGithubTree: loading
  error,         \* useGithubTree: error (NoError for null)
  totalStrands,  \* useGithubTree: totalStrands
  totalWeaves,   \* useGithubTree: totalWeaves
  rawEntries,    \* the entries of the latest successful fetch
  prevTree,      \* the tree published before the latest one
  treePc         \* "pending" | "built" | "rebuilt"

hookVars == <<tree, loading, error, totalStrands, totalWeaves>>
treeVars == <<rawEntries, prevTree, treePc>>

VARIABLES
  repoBranch,            \* REPO_CONFIG.BRANCH
  calls,                 \* the fetchTree calls issued so far, oldest first
  graphQlWarningLogged,  \* module flag
  restWarningLogged      \* module flag

fetchVars == <<repoBranch, calls, graphQlWarningLogged, restWarningLogged>>

VARIABLES
  memoryCache,  \* the Map of lib/codexCache
  cacheLog      \* the cache calls made so far with their results

cacheVars == <<memoryCache, cacheLog>>

VARIABLES
  mode,           \* 'modal' | 'page'
  currentPath,    \* useState('')
  files,          \* useState([])
  viewerLoading,  \* loading of the viewer
  viewerError,    \* error of the viewer
  selectedFile,   \* useState(null)
  fileContent,    \* useState('')
  fileMetadata,   \* useState({})
  url,            \* the query pushed by updateURL
  requests        \* the fetchContents / fetchFileContent calls, oldest first

viewerVars == <<mode, currentPath, files, viewerLoading, viewerError,
                selectedFile, fileContent, fileMetadata, url, requests>>

VARIABLES
  options,        \* useSearchFilter: options
  filterFiles,    \* useSearchFilter: the files argument
  filteredFiles   \* useSearchFilter: filteredFiles

filterVars == <<options, filterFiles, filteredFiles>>

VARIABLES
  searchQuery,           \* useState('')
  debouncedSearchQuery,  \* useState('')
  semanticEnabled,       \* useState(false)
  searchResults,         \* useState([])
  searchError,           \* useState(null)
  semanticSupported,     \* useState(false)
  searchLoading,         \* useState(false)
  searches,              \* the runSearch calls, oldest first
  timers,                \* the pending window.setTimeout handles
  heldMs,                \* how long searchQuery has had its value (capped)
  settled,               \* the trimmed inputs that were held for the delay
  inputs                 \* what the user has done to the search, in order

searchVars == <<searchQuery, debouncedSearchQuery, semanticEnabled,
                searchResults, searchError, semanticSupported, searchLoading,
                searches, timers, heldMs, settled, inputs>>

VARIABLES
  editorOpen,      \* useState(false)
  rightPanelMode,  \* 'metadata' | 'editor' | 'graph'
  modalDraft,      \* draft of the modal StrandEditor (Null: not mounted)
  panelDraft,      \* draft of the right-panel StrandEditor (Null: not mounted)
  consoleLog       \* what the onSave handlers have logged

editorVars == <<editorOpen, rightPanelMode, modalDraft, panelDraft, consoleLog>>

VARIABLES
  textNodes,    \* the values of the text nodes of the markdown tree
  sourceNodes,  \* their values before the first transform
  lastIndex,    \* CONTROL_FLAG_REGEX.lastIndex
  passes        \* how many times the transformer has run on the tree

remarkVars == <<textNodes, sourceNodes, lastIndex, passes>>

VARIABLES
  showCalls,  \* how many times shouldShowFile was called
  lastShow    \* the latest call of shouldShowFile with what it returned

showVars == <<showCalls, lastShow>>

VARIABLES
  effectUrl,     \* the query the URL effect last ran for (NotRun before mount)
  pendingSteps,  \* what waits for a fetchContents call to return
  opens          \* the openFileFromTree calls made so far

openVars == <<effectUrl, pendingSteps, opens>>

VARIABLES
  isSupported,  \* useTextToSpeech: isSupported, after the mount effect
  isPlaying,    \* useTextToSpeech: isPlaying
  isPaused,     \* useTextToSpeech: isPaused
  synthPaused,  \* window.speechSynthesis.paused
  utterances,   \* the utterances handed to speechSynthesis.speak, in order
  lastTts       \* the latest call of the hook or event of an utterance

ttsVars == <<isSupported, isPlaying, isPaused, synthPaused, utterances,
             lastTts>>

VARIABLES
  clock,        \* Date.now(), in ms since the provider was mounted
  messages,     \* ToastProvider: messages
  toastTimers,  \* the pending setTimeout callbacks of show
  toastsShown   \* how many times show was called

toastVars == <<clock, messages, toastTimers, toastsShown>>

\* the utilities and hooks that stand apart from the viewer's state
lateVars == <<showVars, openVars, ttsVars, toastVars>>

\* the components added after the fetches and the cache
uiVars == <<filterVars, searchVars, remarkVars, lateVars>>

vars == <<hookVars, treeVars, fetchVars, cacheVars, viewerVars, uiVars,
          editorVars>>

\* what the actions of one component leave alone
TreeFrame   == UNCHANGED <<fetchVars, cacheVars, viewerVars, uiVars, editorVars>>
FetchFrame  == UNCHANGED <<treeVars, cacheVars, viewerVars, uiVars, editorVars>>
CacheFrame  ==
  UNCHANGED <<hookVars, treeVars, fetchVars, viewerVars, uiVars, editorVars>>
FilterFrame ==
  UNCHANGED <<hookVars, treeVars, fetchVars, cacheVars, viewerVars, searchVars,
              editorVars, remarkVars, lateVars>>
SearchFrame ==
  UNCHANGED <<hookVars, treeVars, fetchVars, cacheVars, viewerVars, editorVars,
              remarkVars, lateVars>>
RemarkFrame ==
  UNCHANGED <<hookVars, treeVars, fetchVars, cacheVars, viewerVars, filterVars,
              searchVars, editorVars, lateVars>>
\* what a component that stands apart leaves alone of the viewer
LateFrame ==
  UNCHANGED <<hookVars, treeVars, fetchVars, cacheVars, viewerVars, filterVars,
              searchVars, editorVars, remarkVars>>
EditorFrame ==
  UNCHANGED <<hookVars, treeVars, fetchVars, cacheLog, uiVars>>

\* useState initial values of useGithubTree
HookInit ==
  /\ tree = <<>>
  /\ loading = TRUE
  /\ error = NoError
  /\ totalStrands = 0
  /\ totalWeaves = 0

\* the success path of fetchTree: setTree, setTotalStrands, setTotalWeaves,
\* and setLoading(false) in the finally block
Publish(pub) ==
  /\ tree' = pub.tree
  /\ totalStrands' = pub.totalStrands
  /\ totalWeaves' = pub.totalWeaves
  /\ loading' = FALSE

PublishSuccess(entries) == Publish(publishTree(entries))

(***************************************************************************)
(* The tree builder on every input list: the first fetch delivers          *)
(* rawEntries, a refetch delivers the same entries in another order.       *)
(***************************************************************************)
TreeInit ==
  /\ rawEntries \in InputLists
  /\ prevTree = <<>>
  /\ treePc = "pending"

TreeIdle ==
  /\ rawEntries = <<>>
  /\ prevTree = <<>>
  /\ treePc = "idle"

\* first fetchTree succeeds with rawEntries
TreeLoaded ==
  /\ treePc = "pending"
  /\ PublishSuccess(rawEntries)
  /\ treePc' = "built"
  /\ UNCHANGED <<error, rawEntries, prevTree>>
  /\ TreeFrame

\* refetch succeeds with the same entries listed in another order
TreeReloaded ==
  /\ treePc = "built"
  /\ \E perm \in Orderings(rawEntries) :
       /\ rawEntries' = perm
       /\ PublishSuccess(perm)
  /\ prevTree' = tree
  /\ treePc' = "rebuilt"
  /\ UNCHANGED error
  /\ TreeFrame

(***************************************************************************)
(* useGithubTree.fetchTree: the branch-candidate loop, GraphQL first and   *)
(* REST as fallback, for every call in flight.                             *)
(***************************************************************************)
\* most fetchTree calls of one session
MaxCalls == 2

\* branch names: REPO_CONFIG.BRANCH is the environment's value or 'main'
Branches == { "master", "main", "dev" }

\* what a rejected fetch throws: an Error with a message, a thrown value that
\* is no Error, or undefined
Rejections ==
  { [kind |-> "Error", message |-> "Not Found"],
    [kind |-> "value", message |-> ""],
    [kind |-> "undefined", message |-> ""] }

NoRejection == [kind |-> "null", message |-> ""]

\* entries a successful tree fetch can deliver
FetchPayloads ==
  { << >>,
    << GitTreeItem(P_w_a_s, "blob") >>,
    << GitTreeItem(P_w, "tree"), GitTreeItem(P_r, "blob") >> }

\* what fetchTree publishes for each of these payloads
publishedFor == [entries \in FetchPayloads |-> publishTree(entries)]

\* Array.from(new Set(list)): first occurrences, in order
RECURSIVE uniqueInOrder(_)
uniqueInOrder(list) ==
  IF list = <<>> THEN <<>>
  ELSE LET front == uniqueInOrder(SubSeq(list, 1, Len(list) - 1))
           last  == list[Len(list)]
       IN IF \E i \in 1..Len(front) : front[i] = last THEN front
          ELSE Append(front, last)

\* mutant of branchCandidates: the list is not de-duplicated
branchCandidatesNoDedup(configured) ==
  SelectSeq(<<"master", "main", configured>>, LAMBDA b : b # "")

\* Array.from(new Set(['master', 'main', REPO_CONFIG.BRANCH].filter(Boolean)))
branchCandidates(configured) ==
  uniqueInOrder(SelectSeq(<<"master", "main", configured>>,
                          LAMBDA b : b # ""))

\* lastError ?? new Error('Unable to fetch Git tree from GitHub.')
thrownError(lastError) ==
  IF lastError.kind \in { "null", "undefined" }
  THEN [kind |-> "Error", message |-> "Unable to fetch Git tree from GitHub."]
  ELSE lastError

\* mutant of treeErrorMessage: err.message without the instanceof test
treeErrorMessageUnchecked(err) ==
  IF err.kind = "Error" THEN err.message ELSE NoError

\* err instanceof Error ? err.message : 'Failed to load knowledge tree'
treeErrorMessage(err) ==
  IF err.kind = "Error" THEN err.message ELSE "Failed to load knowledge tree"

Attempt(branch, via) == [branch |-> branch, via |-> via, result |-> "pending"]

FetchInit ==
  /\ repoBranch \in Branches
  /\ calls = <<>>
  /\ graphQlWarningLogged = FALSE
  /\ restWarningLogged = FALSE

FetchIdle ==
  /\ repoBranch = "main"
  /\ calls = <<>>
  /\ graphQlWarningLogged = FALSE
  /\ restWarningLogged = FALSE

\* the attempt a call is waiting for
CurrentBranch(call) == call.candidates[call.idx]

\* the latest attempt of the call settled with result
Settle(call, result) ==
  [call EXCEPT !.attempts[Len(call.attempts)].result = result]

\* fetchTree() is called (mount effect or refetch): setLoading(true),
\* setError(null), the candidates are computed and GraphQL is asked for the
\* first one
FetchTree ==
  /\ Len(calls) < MaxCalls
  /\ loading' = TRUE
  /\ error' = NoError
  /\ LET candidates == branchCandidates(repoBranch)
     IN calls' = Append(calls,
          [configured |-> repoBranch,
           candidates |-> candidates,
           idx        |-> 1,
           pc         |-> "graphql",
           attempts   |-> << Attempt(candidates[1], "graphql") >>,
           lastError  |-> NoRejection,
           outcome    |-> "pending"])
  /\ UNCHANGED <<tree, totalStrands, totalWeaves, repoBranch,
                 graphQlWarningLogged, restWarningLogged>>
  /\ FetchFrame

\* a fetch of the call succeeded: REPO_CONFIG.BRANCH = branch, the tree is
\* built and published, finally setLoading(false)
FetchSucceeded(c, entries) ==
  /\ repoBranch' = CurrentBranch(calls[c])
  /\ Publish(publishedFor[entries])
  /\ calls' = [calls EXCEPT ![c] =
                 [Settle(calls[c], "ok") EXCEPT !.pc = "done", !.outcome = "success"]]
  /\ UNCHANGED <<error, graphQlWarningLogged, restWarningLogged>>
  /\ FetchFrame

\* fetchGithubTree resolves
GraphqlResolves(c, entries) ==
  /\ calls[c].pc = "graphql"
  /\ FetchSucceeded(c, entries)

\* fetchGithubTree rejects: the warning is logged once, REST is asked for the
\* same branch
GraphqlRejects(c) ==
  /\ calls[c].pc = "graphql"
  /\ graphQlWarningLogged' = TRUE
  /\ calls' = [calls EXCEPT ![c] =
       [Settle(calls[c], "failed") EXCEPT
          !.pc = "rest",
          !.attempts = Append(Settle(calls[c], "failed").attempts,
                              Attempt(CurrentBranch(calls[c]), "rest"))]]
  /\ UNCHANGED <<hookVars, repoBranch, restWarningLogged>>
  /\ FetchFrame

\* fetchGithubTreeREST resolves
RestResolves(c, entries) ==
  /\ calls[c].pc = "rest"
  /\ FetchSucceeded(c, entries)

\* fetchGithubTreeREST rejects: lastError is kept; GraphQL is asked for the
\* next candidate, or, after the last one, the error is thrown and caught:
\* setError, setTree([]), totals 0, finally setLoading(false)
RestRejects(c, err) ==
  /\ calls[c].pc = "rest"
  /\ restWarningLogged' = TRUE
  /\ LET call == [Settle(calls[c], "failed") EXCEPT !.lastError = err]
     IN IF call.idx < Len(call.candidates)
        THEN /\ calls' = [calls EXCEPT ![c] =
                  [call EXCEPT
                     !.idx = call.idx + 1,
                     !.pc = "graphql",
                     !.attempts = Append(call.attempts,
                        Attempt(call.candidates[call.idx + 1], "graphql"))]]
             /\ UNCHANGED hookVars
        ELSE /\ calls' = [calls EXCEPT ![c] =
                  [call EXCEPT !.pc = "done", !.outcome = "failure"]]
             /\ error' = treeErrorMessage(thrownError(call.lastError))
             /\ tree' = <<>>
             /\ totalStrands' = 0
             /\ totalWeaves' = 0
             /\ loading' = FALSE
  /\ UNCHANGED <<repoBranch, graphQlWarningLogged>>
  /\ FetchFrame

(***************************************************************************)
(* The strand cache (lib/codexCache): an in-memory Map from path to row.   *)
(* A row's updated_at is written and never read; rows keep path and        *)
(* content.                                                                *)
(***************************************************************************)
\* most cache operations of one run of the cache alone
MaxCacheOps == 4

\* null, and a string result
Null == [kind |-> "null"]
Str(value) == [kind |-> "string", value |-> value]

\* paths and contents handed to the cache ('' is the empty path / content)
CachePaths == { <<>>, P_w_r, P_w_n }
CacheContents == { <<>>, <<"x">>, <<"x", "x">> }

\* new Map()
EmptyCache == [q \in {} |-> <<>>]

\* mutant of getCachedStrand: row?.content || null
getCachedStrandOr(cache, path) ==
  IF path = <<>> THEN Null
  ELSE IF path \in DOMAIN cache /\ cache[path].content # <<>>
       THEN Str(cache[path].content)
  ELSE Null

\* getCachedStrand(path) against the map cache
getCachedStrand(cache, path) ==
  IF path = <<>> THEN Null
  ELSE IF path \in DOMAIN cache THEN Str(cache[path].content)
  ELSE Null

\* setCachedStrand(path, content): the map after the call
setCachedStrand(cache, path, content) ==
  IF path = <<>> THEN cache
  ELSE [q \in (DOMAIN cache) \cup {path} |->
          IF q = path THEN [path |-> path, content |-> content] ELSE cache[q]]

\* clearCodexCache(): the map after the call
clearCodexCache(cache) == EmptyCache

\* the forEach of getCodexCacheStats: totalBytes += row.content.length
RECURSIVE sumContentLength(_, _)
sumContentLength(cache, paths) ==
  IF paths = {} THEN 0
  ELSE LET q == CHOOSE x \in paths : TRUE
       IN Len(cache[q].content) + sumContentLength(cache, paths \ {q})

\* the stats object
CodexCacheStats(items, bytes) ==
  [kind |-> "stats", totalItems |-> items, totalBytes |-> bytes]

\* mutant of getCodexCacheStats: totalBytes counts the rows
getCodexCacheStatsRows(cache) ==
  CodexCacheStats(Cardinality(DOMAIN cache), Cardinality(DOMAIN cache))

\* getCodexCacheStats() against the map cache
getCodexCacheStats(cache) ==
  CodexCacheStats(Cardinality(DOMAIN cache),
                  sumContentLength(cache, DOMAIN cache))

CacheInit ==
  /\ memoryCache = EmptyCache
  /\ cacheLog = <<>>

\* a caller awaits getCachedStrand(path)
CacheGet(path) ==
  /\ Len(cacheLog) < MaxCacheOps
  /\ cacheLog' = Append(cacheLog,
       [op |-> "get", path |-> path, content |-> <<>>,
        result |-> getCachedStrand(memoryCache, path)])
  /\ UNCHANGED memoryCache
  /\ CacheFrame

\* a caller awaits setCachedStrand(path, content)
CacheSet(path, content) ==
  /\ Len(cacheLog) < MaxCacheOps
  /\ memoryCache' = setCachedStrand(memoryCache, path, content)
  /\ cacheLog' = Append(cacheLog,
       [op |-> "set", path |-> path, content |-> content, result |-> Null])
  /\ CacheFrame

\* a caller awaits clearCodexCache()
CacheClear ==
  /\ Len(cacheLog) < MaxCacheOps
  /\ memoryCache' = clearCodexCache(memoryCache)
  /\ cacheLog' = Append(cacheLog,
       [op |-> "clear", path |-> <<>>, content |-> <<>>, result |-> Null])
  /\ CacheFrame

\* a caller awaits getCodexCacheStats()
CacheStats ==
  /\ Len(cacheLog) < MaxCacheOps
  /\ cacheLog' = Append(cacheLog,
       [op |-> "stats", path |-> <<>>, content |-> <<>>,
        result |-> getCodexCacheStats(memoryCache)])
  /\ UNCHANGED memoryCache
  /\ CacheFrame

(***************************************************************************)
(* FrameCodexViewer: fetchContents and fetchFileContent, with every        *)
(* request in flight.                                                      *)
(***************************************************************************)
\* most directory / file requests of one session
MaxRequests == 3

\* the effect of StrandEditor, useEffect(() => setDraft(content),
\* [content, file.path]), and useState(content) when the editor mounts
syncDraft(draft, mounted, content, path, nextContent, nextPath) ==
  IF ~mounted THEN Null
  ELSE IF draft = Null THEN Str(nextContent)
  ELSE IF nextContent # content \/ nextPath # path THEN Str(nextContent)
  ELSE draft

\* the two StrandEditor elements after a render of the viewer: the modal
\* one is rendered when a file is selected, the right-panel one when the
\* panel is in editor mode as well
EditorFollows ==
  /\ modalDraft' =
       syncDraft(modalDraft, selectedFile'.type # "none",
                 fileContent, selectedFile.path, fileContent', selectedFile'.path)
  /\ panelDraft' =
       syncDraft(panelDraft,
                 rightPanelMode' = "editor" /\ selectedFile'.type # "none",
                 fileContent, selectedFile.path, fileContent', selectedFile'.path)

\* what the fetches of the viewer leave alone
ViewerCoreFrame ==
  /\ UNCHANGED <<hookVars, treeVars, fetchVars, cacheLog, filterVars,
                 searchVars, remarkVars>>
  /\ UNCHANGED <<editorOpen, rightPanelMode, consoleLog>>
  /\ EditorFollows

ViewerFrame == ViewerCoreFrame /\ UNCHANGED lateVars

\* GitHubFile: the fields the viewer reads
GitHubFile(name, path, type, download_url) ==
  [name |-> name, path |-> path, type |-> type, download_url |-> download_url]

N_w    == <<"w">>
N_dist == <<"d", "i", "s", "t">>
N_a    == <<"a">>
N_r    == <<"r", ".", "m", "d">>
N_n    == <<"n", ".", "t", "x", "t">>

File_r    == GitHubFile(N_r, P_r, "file", "raw:r.md")
File_w_r  == GitHubFile(N_r, P_w_r, "file", "raw:w/r.md")
File_w_n  == GitHubFile(N_n, P_w_n, "file", "raw:w/n.txt")
Dir_w     == GitHubFile(N_w, P_w, "dir", "")
Dir_dist  == GitHubFile(N_dist, N_dist, "dir", "")
Dir_w_a   == GitHubFile(N_a, P_w_a, "dir", "")

\* directories the user navigates to ('' is the repository root)
ViewerDirs == { <<>>, P_w }

\* what the Contents API can answer for a directory, as delivered
Listings(path) ==
  IF path = <<>>
  THEN { << File_r, Dir_dist, Dir_w >>, << Dir_w >> }
  ELSE { << File_w_r, File_w_n, Dir_w_a >>, << File_w_n >> }

\* files handed to fetchFileContent
ViewerFiles == { File_w_r, File_w_n, Dir_w }

\* what a raw download can deliver
FileContents == { <<>>, <<"x">>, <<"x", "x">> }

\* names of IGNORED_SEGMENTS the listings use
IGNORED_SEGMENTS == { N_dist }

\* shouldIgnorePath(name)
shouldIgnorePath(name) == name \in IGNORED_SEGMENTS

\* the comparator of fetchContents: directories first, then
\* a.name.localeCompare(b.name) (the listings use lower-case ASCII names)
compareFiles(a, b) ==
  IF a.type # b.type THEN a.type = "dir" ELSE StrLess(a.name, b.name)

RECURSIVE insertFile(_, _)
insertFile(sorted, f) ==
  IF sorted = <<>> THEN <<f>>
  ELSE IF compareFiles(f, Head(sorted)) THEN <<f>> \o sorted
  ELSE <<Head(sorted)>> \o insertFile(Tail(sorted), f)

RECURSIVE sortFiles(_)
sortFiles(list) ==
  IF list = <<>> THEN <<>>
  ELSE insertFile(sortFiles(SubSeq(list, 1, Len(list) - 1)), list[Len(list)])

\* data.filter(item => !shouldIgnorePath(item.name)).sort(...)
sortedData(data) ==
  sortFiles(SelectSeq(data, LAMBDA item : ~shouldIgnorePath(item.name)))

\* parseWikiMetadata(content): the metadata of a content, kept by the content
\* it was parsed from
parseWikiMetadata(content) == [parsedFrom |-> content]

\* {} : the initial fileMetadata
NoMetadata == [empty |-> TRUE]

\* null for selectedFile
NoFile == GitHubFile(<<>>, <<>>, "none", "")

\* a string-or-null is truthy when it is a non-empty string
truthy(cached) == IF cached = Null THEN FALSE ELSE cached.value # <<>>

\* mutant of errorMessage: err.message whatever was thrown
errorMessageOfAny(err, fallback) == err.message

\* err instanceof Error ? err.message : fallback
errorMessage(err, fallback) ==
  IF err.kind = "Error" THEN err.message ELSE fallback

NoUrl == [path |-> <<>>, file |-> <<>>]

ViewerState ==
  /\ currentPath = <<>>
  /\ files = <<>>
  /\ viewerLoading = FALSE
  /\ viewerError = NoError
  /\ selectedFile = NoFile
  /\ fileContent = <<>>
  /\ fileMetadata = NoMetadata
  /\ url = NoUrl
  /\ requests = <<>>

ViewerInit ==
  /\ mode \in { "modal", "page" }
  /\ ViewerState

ViewerIdle ==
  /\ mode = "modal"
  /\ ViewerState

\* updateURL(path, file): router.push in page mode only
updateURL(path, file) ==
  IF mode = "page" THEN [path |-> path, file |-> file] ELSE url

Done(r, outcome) ==
  [requests EXCEPT ![r] = [@ EXCEPT !.pc = "done", !.outcome = outcome]]

\* fetchContents(path) is called: setLoading(true), setError(null), the
\* Contents API is asked
fetchContentsCall(path) ==
  /\ viewerLoading' = TRUE
  /\ viewerError' = NoError
  /\ requests' = Append(requests,
       [kind |-> "contents", path |-> path, file |-> NoFile,
        closurePath |-> currentPath, returned |-> <<>>,
        pc |-> "inflight", outcome |-> "pending"])
  /\ UNCHANGED <<mode, currentPath, files, selectedFile, fileContent,
                 fileMetadata, url, memoryCache>>

\* the user opens a directory
FetchContents(path) ==
  /\ Len(requests) < MaxRequests
  /\ fetchContentsCall(path)
  /\ ViewerFrame

\* the response is ok: setFiles, setCurrentPath, updateURL, setLoading(false),
\* and the call returns the sorted listing
ContentsResolves(r, data) ==
  /\ requests[r].kind = "contents"
  /\ requests[r].pc = "inflight"
  /\ data \in Listings(requests[r].path)
  /\ files' = sortedData(data)
  /\ currentPath' = requests[r].path
  /\ url' = updateURL(requests[r].path, <<>>)
  /\ viewerLoading' = FALSE
  /\ requests' = [Done(r, "success") EXCEPT ![r].returned = sortedData(data)]
  /\ UNCHANGED <<mode, viewerError, selectedFile, fileContent, fileMetadata,
                 memoryCache>>
  /\ ViewerFrame

\* fetch rejects or the response is not ok: setError, setLoading(false), and
\* the call returns sortedData as it was declared, []
ContentsRejects(r, err) ==
  /\ requests[r].kind = "contents"
  /\ requests[r].pc = "inflight"
  /\ viewerError' = errorMessage(err, "Failed to fetch repository contents")
  /\ viewerLoading' = FALSE
  /\ requests' = Done(r, "failure")
  /\ UNCHANGED <<mode, currentPath, files, selectedFile, fileContent,
                 fileMetadata, url, memoryCache>>
  /\ ViewerFrame

\* the tail of fetchFileContent once the content is known: setFileContent,
\* setSelectedFile, setFileMetadata for a markdown file, updateURL with the
\* currentPath of the closure, setLoading(false)
ShowFile(file, content, closurePath) ==
  /\ fileContent' = content
  /\ selectedFile' = file
  /\ fileMetadata' = IF isMarkdownFile(file.name)
                     THEN parseWikiMetadata(content) ELSE fileMetadata
  /\ url' = updateURL(closurePath, file.path)
  /\ viewerLoading' = FALSE

\* fetchFileContent(file) is called with something that is no downloadable
\* file: it returns at once
FetchFileIgnored(file) ==
  /\ file.type # "file" \/ file.download_url = ""
  /\ UNCHANGED <<viewerVars, memoryCache>>
  /\ ViewerFrame

\* fetchFileContent(file) is called and the cache has the content: the
\* file is shown without a request
fetchFileCachedCall(file, closurePath) ==
  /\ file.type = "file" /\ file.download_url # ""
  /\ LET cached == getCachedStrand(memoryCache, file.path)
     IN /\ truthy(cached)
        /\ ShowFile(file, cached.value, closurePath)
  /\ viewerError' = NoError
  /\ requests' = Append(requests,
       [kind |-> "file", path |-> file.path, file |-> file,
        closurePath |-> closurePath, returned |-> <<>>,
        pc |-> "done", outcome |-> "cached"])
  /\ UNCHANGED <<mode, currentPath, files, memoryCache>>

\* the user clicks a file that is cached: the callback of the current render
FetchFileCached(file) ==
  /\ Len(requests) < MaxRequests
  /\ fetchFileCachedCall(file, currentPath)
  /\ ViewerFrame

\* fetchFileContent(file) is called and the cache has nothing (or an empty
\* content): setLoading(true), setError(null), the raw file is asked for
fetchFileContentCall(file, closurePath) ==
  /\ file.type = "file" /\ file.download_url # ""
  /\ LET cached == getCachedStrand(memoryCache, file.path)
     IN ~truthy(cached)
  /\ viewerLoading' = TRUE
  /\ viewerError' = NoError
  /\ requests' = Append(requests,
       [kind |-> "file", path |-> file.path, file |-> file,
        closurePath |-> closurePath, returned |-> <<>>,
        pc |-> "inflight", outcome |-> "pending"])
  /\ UNCHANGED <<mode, currentPath, files, selectedFile, fileContent,
                 fileMetadata, url, memoryCache>>

\* the user clicks a file that is not cached
FetchFileContent(file) ==
  /\ Len(requests) < MaxRequests
  /\ fetchFileContentCall(file, currentPath)
  /\ ViewerFrame

\* the download is ok: setCachedStrand, then the file is shown
FileResolves(r, content) ==
  /\ requests[r].kind = "file"
  /\ requests[r].pc = "inflight"
  /\ memoryCache' = setCachedStrand(memoryCache, requests[r].path, content)
  /\ ShowFile(requests[r].file, content, requests[r].closurePath)
  /\ requests' = Done(r, "success")
  /\ UNCHANGED <<mode, currentPath, files, viewerError>>
  /\ ViewerFrame

\* the download rejects or is not ok: setError, setLoading(false)
FileRejects(r, err) ==
  /\ requests[r].kind = "file"
  /\ requests[r].pc = "inflight"
  /\ viewerError' = errorMessage(err, "Failed to fetch file content")
  /\ viewerLoading' = FALSE
  /\ requests' = Done(r, "failure")
  /\ UNCHANGED <<mode, currentPath, files, selectedFile, fileContent,
                 fileMetadata, url, memoryCache>>
  /\ ViewerFrame

\* fetchFileContent(file) is called and getCachedStrand rejects: the await
\* throws inside the try, so the catch sets the error and the finally block
\* clears loading; nothing is asked of the network
FetchFileCacheGetRejects(file, err) ==
  /\ file.type = "file" /\ file.download_url # ""
  /\ Len(requests) < MaxRequests
  /\ viewerError' = errorMessage(err, "Failed to fetch file content")
  /\ viewerLoading' = FALSE
  /\ requests' = Append(requests,
       [kind |-> "file", path |-> file.path, file |-> file,
        closurePath |-> currentPath, returned |-> <<>>,
        pc |-> "done",
        outcome |-> "cache-get-rejected"])
  /\ UNCHANGED <<mode, currentPath, files, selectedFile, fileContent,
                 fileMetadata, url, memoryCache>>
  /\ ViewerFrame

\* the download is ok and setCachedStrand rejects: the await throws before
\* setFileContent, so the catch sets the error and the file is not shown
FileResolvesCacheSetRejects(r, content, err) ==
  /\ requests[r].kind = "file"
  /\ requests[r].pc = "inflight"
  /\ viewerError' = errorMessage(err, "Failed to fetch file content")
  /\ viewerLoading' = FALSE
  /\ requests' = Done(r, "cache-set-rejected")
  /\ UNCHANGED <<mode, currentPath, files, selectedFile, fileContent,
                 fileMetadata, url, memoryCache>>
  /\ ViewerFrame

(***************************************************************************)
(* openFileFromTree and the effect that loads from the URL parameters.     *)
(***************************************************************************)
\* requests and openFileFromTree calls that are followed
MaxOpenRequests == 7
MaxOpens == 1

\* fullPath.replace(/^\/+/, '')
RECURSIVE stripLeadingSlashes(_)
stripLeadingSlashes(fullPath) ==
  IF fullPath # <<>> /\ Head(fullPath) = "/"
  THEN stripLeadingSlashes(Tail(fullPath)) ELSE fullPath

\* API_ENDPOINTS.raw(path), for the paths that are opened
raw(path) ==
  CASE path = P_r -> "raw:r.md"
    [] path = P_w_r -> "raw:w/r.md"
    [] path = P_w_n -> "raw:w/n.txt"
    [] OTHER -> "raw:"

\* segments.pop() || normalizedPath
fileNameOf(normalizedPath) ==
  LET segments == Split(normalizedPath)
      popped == segments[Len(segments)]
  IN IF popped # <<>> THEN popped ELSE normalizedPath

\* segments.join('/') after the pop
parentDirOf(normalizedPath) ==
  LET segments == Split(normalizedPath)
  IN Join(SubSeq(segments, 1, Len(segments) - 1))

\* filePayload of openFileFromTree
filePayload(fullPath) ==
  LET normalizedPath == stripLeadingSlashes(fullPath)
  IN GitHubFile(fileNameOf(normalizedPath), normalizedPath, "file",
                raw(normalizedPath))

\* allFilesForSearch.find(f => f.path === file), NoFile for undefined
RECURSIVE findByPath(_, _)
findByPath(list, path) ==
  IF list = <<>> THEN NoFile
  ELSE IF Head(list).path = path THEN Head(list)
  ELSE findByPath(Tail(list), path)

\* what the tree and the search results hand to openFileFromTree
OpenPaths == { P_w_r, <<"/">> \o P_w_r, P_r }

NotRun == [path |-> <<"?">>, file |-> <<"?">>]

OpenIdle ==
  /\ effectUrl = NotRun
  /\ pendingSteps = {}
  /\ opens = <<>>

\* the effect has to run: at mount, and in page mode whenever the URL
\* parameters are not those it last ran for
EffectDue ==
  \/ effectUrl = NotRun
  \/ mode = "page" /\ effectUrl # url

\* a fetchContents call has returned and its caller has not gone on yet
StepDue(step) == requests[step.after].pc = "done"

\* nothing is in flight and nothing waits to run
Quiet ==
  /\ ~EffectDue
  /\ pendingSteps = {}
  /\ \A r \in 1..Len(requests) : requests[r].pc = "done"

\* the scheduled work that runs before any response or click is handled
WorkDue == EffectDue \/ \E step \in pendingSteps : StepDue(step)

\* fetchFileContent(file) of the render whose currentPath is closurePath
fetchFileCall(file, closurePath) ==
  \/ fetchFileCachedCall(file, closurePath)
  \/ fetchFileContentCall(file, closurePath)

\* the effect on [isOpen, mode, urlPath, urlFile]: page mode loads the
\* directory of the URL and then its file, modal mode loads initialPath
UrlEffect ==
  /\ EffectDue
  /\ Len(requests) < MaxOpenRequests
  /\ fetchContentsCall(IF mode = "page" THEN url.path ELSE <<>>)
  /\ effectUrl' = url
  /\ pendingSteps' =
       IF mode = "page" /\ url.file # <<>>
       THEN pendingSteps \cup
              { [after |-> Len(requests) + 1, step |-> "effect",
                 file |-> GitHubFile(<<>>, url.file, "file", ""),
                 closureFiles |-> files, closurePath |-> currentPath] }
       ELSE pendingSteps
  /\ UNCHANGED <<opens, showVars, ttsVars, toastVars>>
  /\ ViewerCoreFrame

\* openFileFromTree(fullPath): the parent directory is loaded first when it
\* is not the current one, else the file is loaded at once
OpenFileFromTree(fullPath) ==
  /\ Quiet
  /\ Len(opens) < MaxOpens
  /\ Len(requests) < MaxOpenRequests
  /\ LET payload == filePayload(fullPath)
         parentDir == parentDirOf(stripLeadingSlashes(fullPath))
     IN /\ opens' = Append(opens, [fullPath |-> fullPath, parentDir |-> parentDir,
                                   file |-> payload,
                                   listed |-> parentDir # currentPath])
        /\ IF parentDir # currentPath
           THEN /\ fetchContentsCall(parentDir)
                /\ pendingSteps' = pendingSteps \cup
                     { [after |-> Len(requests) + 1, step |-> "open",
                        file |-> payload, closureFiles |-> files,
                        closurePath |-> currentPath] }
           ELSE /\ fetchFileCall(payload, currentPath)
                /\ UNCHANGED pendingSteps
  /\ UNCHANGED <<effectUrl, showVars, ttsVars, toastVars>>
  /\ ViewerCoreFrame

\* the code after 'await fetchContents(...)': openFileFromTree goes on to
\* fetchFileContent(filePayload) with the callback it was created with; the
\* effect looks the file of the URL up in the listing that was returned (in
\* the files of its render when that is empty) and opens it when found
Continue(step) ==
  /\ step \in pendingSteps
  /\ StepDue(step)
  /\ Len(requests) < MaxOpenRequests
  /\ pendingSteps' = pendingSteps \ { step }
  /\ LET newFiles == requests[step.after].returned
         allFilesForSearch == IF newFiles # <<>> THEN newFiles
                              ELSE step.closureFiles
         targetFile == IF step.step = "open" THEN step.file
                       ELSE findByPath(allFilesForSearch, step.file.path)
     IN IF targetFile = NoFile \/ targetFile.type # "file"
           \/ targetFile.download_url = ""
        THEN UNCHANGED <<viewerVars, memoryCache>>
        ELSE fetchFileCall(targetFile, step.closurePath)
  /\ UNCHANGED <<effectUrl, opens, showVars, ttsVars, toastVars>>
  /\ ViewerCoreFrame

\* a response arrives, after the scheduled work has run
OpenResponse ==
  /\ ~WorkDue
  /\ \E r \in 1..Len(requests) :
       \/ \E data \in Listings(<<>>) \cup Listings(P_w) : ContentsResolves(r, data)
       \/ ContentsRejects(r, [kind |-> "Error", message |-> "Not Found"])
       \/ FileResolves(r, <<"x">>)
       \/ FileRejects(r, [kind |-> "Error", message |-> "Not Found"])

(***************************************************************************)
(* useTextToSpeech over window.speechSynthesis.  An utterance is queued,   *)
(* spoken and done; cancel() ends the utterances it finds, and the end or  *)
(* error event of each is delivered to its handler some time later.        *)
(***************************************************************************)
\* utterances that are followed
MaxUtterances == 3

TtsTexts == { "t1", "t2" }

NoTts == [kind |-> "none", utterance |-> 0]

TtsInit ==
  /\ isSupported \in BOOLEAN
  /\ isPlaying = FALSE
  /\ isPaused = FALSE
  /\ synthPaused = FALSE
  /\ utterances = <<>>
  /\ lastTts = NoTts

TtsIdle ==
  /\ isSupported = FALSE
  /\ isPlaying = FALSE
  /\ isPaused = FALSE
  /\ synthPaused = FALSE
  /\ utterances = <<>>
  /\ lastTts = NoTts

TtsFrame == LateFrame /\ UNCHANGED <<showVars, openVars, toastVars>>

\* mutant of setFlags: the other flag keeps its value
setFlagsOneSided(playing, paused) ==
  /\ isPlaying' = (playing \/ isPlaying)
  /\ isPaused' = (paused \/ isPaused)

\* setIsPlaying(playing) and setIsPaused(paused) of one handler, which
\* React applies together
setFlags(playing, paused) ==
  /\ isPlaying' = playing
  /\ isPaused' = paused

\* window.speechSynthesis.cancel(): the queue is emptied ('canceled') and
\* speaking ceases ('interrupted'); each utterance it ends has its last
\* event still to come
cancel(queue) ==
  [i \in 1..Len(queue) |->
     CASE queue[i].status = "queued" -> [queue[i] EXCEPT !.status = "canceled"]
       [] queue[i].status = "speaking" ->
            [queue[i] EXCEPT !.status = "interrupted"]
       [] OTHER -> queue[i]]

\* a call that returns at 'if (!isSupported) return'
TtsUnsupported(call) ==
  /\ ~isSupported
  /\ lastTts' = [kind |-> call, utterance |-> 0]
  /\ UNCHANGED <<isSupported, isPlaying, isPaused, synthPaused, utterances>>
  /\ TtsFrame

\* speak(text)
Speak(text) ==
  /\ isSupported
  /\ Len(utterances) < MaxUtterances
  /\ utterances' = Append(cancel(utterances),
                          [text |-> text, status |-> "queued"])
  /\ lastTts' = [kind |-> "speak", utterance |-> Len(utterances) + 1]
  /\ UNCHANGED <<isSupported, isPlaying, isPaused, synthPaused>>
  /\ TtsFrame

\* pause()
Pause ==
  /\ isSupported
  /\ synthPaused' = TRUE
  /\ setFlags(FALSE, TRUE)
  /\ lastTts' = [kind |-> "pause", utterance |-> 0]
  /\ UNCHANGED <<isSupported, utterances>>
  /\ TtsFrame

\* resume()
Resume ==
  /\ isSupported
  /\ synthPaused' = FALSE
  /\ setFlags(TRUE, FALSE)
  /\ lastTts' = [kind |-> "resume", utterance |-> 0]
  /\ UNCHANGED <<isSupported, utterances>>
  /\ TtsFrame

\* stop()
Stop ==
  /\ isSupported
  /\ utterances' = cancel(utterances)
  /\ setFlags(FALSE, FALSE)
  /\ lastTts' = [kind |-> "stop", utterance |-> 0]
  /\ UNCHANGED <<isSupported, synthPaused>>
  /\ TtsFrame

\* the synthesizer is speaking some utterance
Speaking == \E i \in 1..Len(utterances) : utterances[i].status = "speaking"

\* utterance.onstart: the utterance at the head of the queue begins
UtteranceStarts(i) ==
  /\ utterances[i].status = "queued"
  /\ ~Speaking /\ ~synthPaused
  /\ utterances' = [utterances EXCEPT ![i].status = "speaking"]
  /\ setFlags(TRUE, FALSE)
  /\ lastTts' = [kind |-> "start", utterance |-> i]
  /\ UNCHANGED <<isSupported, synthPaused>>
  /\ TtsFrame

\* utterance.onend / utterance.onerror of the utterance that is spoken, and
\* of one that cancel() has ended
UtteranceFinishes(i, event) ==
  /\ \/ utterances[i].status = "speaking" /\ ~synthPaused
     \/ utterances[i].status = "speaking" /\ event = "error"
     \/ utterances[i].status \in { "canceled", "interrupted" }
  /\ utterances' = [utterances EXCEPT ![i].status = "done"]
  /\ setFlags(FALSE, FALSE)
  /\ lastTts' = [kind |-> event, utterance |-> i]
  /\ UNCHANGED <<isSupported, synthPaused>>
  /\ TtsFrame

(***************************************************************************)
(* ToastProvider: show, the expiry timer of each toast, the dismiss button. *)
(***************************************************************************)
\* show calls that are followed
MaxToasts == 3

\* the delay of the setTimeout in show
TOAST_MS == 3200

\* the step of the clock
ToastTickMs == 1600

\* how long the clock is followed while no toast is on its way out
MaxIdleMs == 6400

ToastTexts == { "saved", "copied" }
ToastTypes == { "info", "success", "error" }

ToastIdle ==
  /\ clock = 0
  /\ messages = <<>>
  /\ toastTimers = {}
  /\ toastsShown = 0

ToastFrame == LateFrame /\ UNCHANGED <<showVars, openVars, ttsVars>>

\* prev.filter((msg) => msg.id !== id)
withoutId(prev, id) == SelectSeq(prev, LAMBDA msg : msg.id # id)

\* show(message, type): the id is the time of the call
ShowToast(message, type) ==
  /\ toastsShown < MaxToasts
  /\ LET id == clock
     IN /\ messages' = Append(messages,
                              [id |-> id, message |-> message, type |-> type])
        /\ toastTimers' = toastTimers \cup
                            { [id |-> id, due |-> clock + TOAST_MS,
                               call |-> toastsShown + 1] }
  /\ toastsShown' = toastsShown + 1
  /\ UNCHANGED clock
  /\ ToastFrame

\* the timeout callback of one show call runs when its delay has passed
ToastExpires(timer) ==
  /\ timer \in toastTimers
  /\ timer.due <= clock
  /\ messages' = withoutId(messages, timer.id)
  /\ toastTimers' = toastTimers \ { timer }
  /\ UNCHANGED <<clock, toastsShown>>
  /\ ToastFrame

\* the dismiss button of the i-th toast on display
DismissToast(i) ==
  /\ i \in 1..Len(messages)
  /\ messages' = withoutId(messages, messages[i].id)
  /\ UNCHANGED <<clock, toastTimers, toastsShown>>
  /\ ToastFrame

\* time passes, once the callbacks that are due have run
ToastTick ==
  /\ \A timer \in toastTimers : timer.due > clock
  /\ toastTimers # {} \/ (toastsShown < MaxToasts /\ clock < MaxIdleMs)
  /\ clock' = clock + ToastTickMs
  /\ UNCHANGED <<messages, toastTimers, toastsShown>>
  /\ ToastFrame

(***************************************************************************)
(* File kinds by extension (utils) and useSearchFilter.                    *)
(***************************************************************************)
\* MEDIA_EXTENSIONS: images, audio, video, documents
MEDIA_EXTENSIONS ==
  {
    <<".", "j", "p", "g">>, <<".", "j", "p", "e", "g">>,
    <<".", "p", "n", "g">>, <<".", "g", "i", "f">>,
    <<".", "w", "e", "b", "p">>, <<".", "s", "v", "g">>,
    <<".", "b", "m", "p">>, <<".", "i", "c", "o">>, <<".", "m", "p", "3">>,
    <<".", "w", "a", "v">>, <<".", "o", "g", "g">>, <<".", "m", "4", "a">>,
    <<".", "a", "a", "c">>, <<".", "f", "l", "a", "c">>,
    <<".", "w", "e", "b", "m">>, <<".", "m", "p", "4">>,
    <<".", "o", "g", "v">>, <<".", "m", "o", "v">>, <<".", "a", "v", "i">>,
    <<".", "m", "k", "v">>, <<".", "p", "d", "f">> }

\* TEXT_FILE_EXTENSIONS
TEXT_FILE_EXTENSIONS ==
  {
    <<".", "j", "s", "o", "n">>, <<".", "y", "a", "m", "l">>,
    <<".", "y", "m", "l">>, <<".", "t", "o", "m", "l">>,
    <<".", "i", "n", "i">>, <<".", "c", "f", "g">>,
    <<".", "c", "o", "n", "f">>, <<".", "t", "x", "t">>,
    <<".", "l", "o", "g">>, <<".", "e", "n", "v">>,
    <<".", "g", "i", "t", "i", "g", "n", "o", "r", "e">>,
    <<".", "g", "i", "t", "a", "t", "t", "r", "i", "b", "u", "t", "e", "s">>,
    <<".", "m", "d", "x", "c", "o", "n", "f", "i", "g">>,
    <<".", "s", "c", "h", "e", "m", "a">> }

\* filename.lastIndexOf('.'), 0 for -1
RECURSIVE lastIndexOfDot(_, _)
lastIndexOfDot(filename, i) ==
  IF i = 0 THEN 0
  ELSE IF filename[i] = "." THEN i
  ELSE lastIndexOfDot(filename, i - 1)

\* getExtension(filename)
getExtension(filename) ==
  LET lastDot == lastIndexOfDot(filename, Len(filename))
  IN IF lastDot = 0 THEN <<>>
     ELSE ToLowerCase(SubSeq(filename, lastDot, Len(filename)))

\* isPreviewableTextFile(filename)
isPreviewableTextFile(filename) ==
  LET ext == getExtension(filename)
  IN IF ext # <<>> THEN ext \in TEXT_FILE_EXTENSIONS ELSE FALSE

\* isMediaFile(filename)
isMediaFile(filename) ==
  LET ext == getExtension(filename)
  IN IF ext # <<>> THEN ext \in MEDIA_EXTENSIONS ELSE FALSE

\* mutant of shouldShowFile: the extraExtensions list is not consulted
shouldShowFileAnyExtension(file, scope, extraExtensions) ==
  IF file.type = "dir" THEN TRUE
  ELSE CASE scope = "strands" -> isMarkdownFile(file.name)
         [] scope = "media" -> isMediaFile(file.name)
         [] scope = "configs" -> isPreviewableTextFile(file.name)
         [] OTHER -> TRUE

\* shouldShowFile(file, scope, _includeMarkdown, extraExtensions)
shouldShowFile(file, scope, extraExtensions) ==
  IF file.type = "dir" THEN TRUE
  ELSE LET ext == getExtension(file.name)
       IN IF extraExtensions # {} /\ ext # <<>> /\ ext \notin extraExtensions
          THEN FALSE
          ELSE CASE scope = "strands" -> isMarkdownFile(file.name)
                 [] scope = "media" -> isMediaFile(file.name)
                 [] scope = "configs" -> isPreviewableTextFile(file.name)
                 [] OTHER -> TRUE

\* haystack.includes(needle)
includes(haystack, needle) ==
  \E i \in 1..(Len(haystack) + 1) :
    /\ i + Len(needle) - 1 <= Len(haystack)
    /\ SubSeq(haystack, i, i + Len(needle) - 1) = needle

\* FileFilterScope
FileFilterScopes == { "all", "strands", "media", "configs" }

\* the initial options of useSearchFilter (searchContent is read nowhere)
DefaultOptions ==
  [query |-> <<>>, searchNames |-> TRUE, caseSensitive |-> FALSE,
   filterScope |-> "all", hideEmptyFolders |-> FALSE, rootScope |-> "fabric"]

\* the filter callback of step 2
queryMatches(f, opts) ==
  LET q == IF opts.caseSensitive THEN opts.query ELSE ToLowerCase(opts.query)
      name == IF opts.caseSensitive THEN f.name ELSE ToLowerCase(f.name)
      path == IF opts.caseSensitive THEN f.path ELSE ToLowerCase(f.path)
  IN IF opts.searchNames /\ includes(name, q) THEN TRUE
     ELSE includes(path, q)

\* the useMemo body of filteredFiles
computeFilteredFiles(list, opts) ==
  IF list = <<>> THEN <<>>
  ELSE IF opts.query # <<>>
       THEN SelectSeq(list, LAMBDA f : queryMatches(f, opts))
  ELSE list

\* longest files list handed to useSearchFilter
MaxFilterFiles == 3

N_R == <<"R", ".", "M", "D">>
N_p == <<"p", ".", "p", "n", "g">>

File_w_R == GitHubFile(N_R, P_w_R, "file", "raw:w/R.MD")
File_w_p == GitHubFile(N_p, <<"w", "/", "p", ".", "p", "n", "g">>, "file",
                       "raw:w/p.png")

\* the entries a files list is made of
FilterUniverse == { File_w_r, File_w_R, File_w_n, File_w_p, Dir_w_a }

FilterInputs ==
  UNION { { l \in [1..n -> FilterUniverse] :
              \A i, j \in 1..n : i # j => l[i] # l[j] } :
          n \in 0..MaxFilterFiles }

\* what the user types into the filter box
Queries == { <<>>, <<"r">>, <<"R">>, <<"n", ".">>, <<"w", "/", "a">> }

\* the hook before anything is typed, over some files list
FilterInit ==
  /\ filterFiles \in FilterInputs
  /\ options = DefaultOptions
  /\ filteredFiles = computeFilteredFiles(filterFiles, options)

FilterIdle ==
  /\ filterFiles = <<>>
  /\ options = DefaultOptions
  /\ filteredFiles = <<>>


\* setOptions(next) and the useMemo that follows it
SetOptions(next) ==
  /\ options' = next
  /\ filteredFiles' = computeFilteredFiles(filterFiles, next)
  /\ UNCHANGED filterFiles
  /\ FilterFrame

SetQuery(query) == SetOptions([options EXCEPT !.query = query])

ToggleSearchNames ==
  SetOptions([options EXCEPT !.searchNames = ~options.searchNames])

ToggleCaseSensitive ==
  SetOptions([options EXCEPT !.caseSensitive = ~options.caseSensitive])

SetFilterScope(scope) == SetOptions([options EXCEPT !.filterScope = scope])

ResetFilters == SetOptions(DefaultOptions)

(***************************************************************************)
(* shouldShowFile called directly, over names of every kind.               *)
(***************************************************************************)
\* calls of shouldShowFile that are followed
MaxShowCalls == 2

\* file names: markdown in both cases, mdx, config, media in upper case, a
\* name without a dot, a name ending in a dot, a dot file
ShowNames ==
  { N_r, N_R, <<"x", ".", "m", "d", "x">>, N_n, <<"P", ".", "P", "N", "G">>,
    N_a, <<"a", ".">>, <<".", "e", "n", "v">>, <<"a", ".", "m", "d", ".", "b">> }

ShowFiles ==
  { [name |-> name, path |-> P_w \o <<"/">> \o name, type |-> "file"] :
      name \in ShowNames }
    \cup { [name |-> name, path |-> name, type |-> "dir"] : name \in { N_a, N_r } }

\* the extraExtensions argument, as a set
ExtraExtensions ==
  { {}, { <<".", "m", "d">> }, { <<".", "p", "n", "g">>, <<".", "t", "x", "t">> } }

NoCall == [called |-> FALSE]

ShowIdle ==
  /\ showCalls = 0
  /\ lastShow = NoCall

\* a caller asks shouldShowFile(file, scope, true, extraExtensions)
CallShouldShowFile(file, scope, extraExtensions) ==
  /\ showCalls < MaxShowCalls
  /\ showCalls' = showCalls + 1
  /\ lastShow' = [called |-> TRUE, file |-> file, scope |-> scope,
                  extraExtensions |-> extraExtensions,
                  result |-> shouldShowFile(file, scope, extraExtensions)]
  /\ LateFrame
  /\ UNCHANGED <<openVars, ttsVars, toastVars>>

ToggleHideEmptyFolders ==
  SetOptions([options EXCEPT !.hideEmptyFolders = ~options.hideEmptyFolders])

SetRootScope(scope) == SetOptions([options EXCEPT !.rootScope = scope])

(***************************************************************************)
(* CodexSidebar: the knowledge tree filtered by root scope and file scope. *)
(***************************************************************************)
\* NavigationRootScope
NavigationRootScopes == { "fabric", "weaves" }

\* the path literal 'weaves'
WEAVES == <<"w", "e", "a", "v", "e", "s">>

P_weaves_r == WEAVES \o <<"/", "r", ".", "m", "d">>
P_weaves_n == WEAVES \o <<"/", "n", ".", "t", "x", "t">>
P_weaves_a_n == WEAVES \o <<"/", "a", "/", "n", ".", "t", "x", "t">>

\* repository items of a codex with a weaves directory
SidebarUniverse ==
  { GitTreeItem(WEAVES, "tree"), GitTreeItem(P_weaves_r, "blob"),
    GitTreeItem(P_weaves_n, "blob"), GitTreeItem(P_weaves_a_n, "blob"),
    GitTreeItem(P_r, "blob"), GitTreeItem(P_b_x, "blob") }

SidebarLists ==
  UNION { { l \in [1..n -> SidebarUniverse] :
              \A i, j \in 1..n : i # j => l[i] # l[j] } :
          n \in 0..MaxItems }

\* knowledgeTree.find(n => n.path === 'weaves')?.children || []
RECURSIVE weavesChildren(_)
weavesChildren(nodes) ==
  IF nodes = <<>> THEN <<>>
  ELSE IF Head(nodes).path = WEAVES THEN Head(nodes).children
  ELSE weavesChildren(Tail(nodes))

\* the root-scope step of filteredTree
treeToFilter(knowledgeTree, rootScope) ==
  IF rootScope = "fabric" THEN weavesChildren(knowledgeTree) ELSE knowledgeTree

\* nodes.map(filterNode).filter(n => n !== null), filterNode inlined:
\* a file is kept when shouldShowFile says so, a directory is kept with its
\* kept children, and without any it is dropped or kept empty
\* mutant of filterNodes: a directory without kept children is dropped only
\* at the top of the tree it is given
RECURSIVE filterNodesKeepingInner(_, _, _)
filterNodesKeepingInner(nodes, opts, top) ==
  IF nodes = <<>> THEN <<>>
  ELSE LET node == Head(nodes)
           rest == filterNodesKeepingInner(Tail(nodes), opts, top)
       IN IF node.type = "file"
          THEN IF shouldShowFile([name |-> node.name, path |-> node.path,
                                  type |-> "file"], opts.filterScope, {})
               THEN <<node>> \o rest ELSE rest
          ELSE LET keptChildren ==
                     filterNodesKeepingInner(node.children, opts, FALSE)
               IN IF keptChildren = <<>>
                  THEN IF opts.hideEmptyFolders /\ top THEN rest
                       ELSE <<[node EXCEPT !.children = <<>>]>> \o rest
                  ELSE <<[node EXCEPT !.children = keptChildren]>> \o rest

filterNodesTopOnly(nodes, opts) == filterNodesKeepingInner(nodes, opts, TRUE)

RECURSIVE filterNodes(_, _)
filterNodes(nodes, opts) ==
  IF nodes = <<>> THEN <<>>
  ELSE LET node == Head(nodes)
           rest == filterNodes(Tail(nodes), opts)
       IN IF node.type = "file"
          THEN IF shouldShowFile([name |-> node.name, path |-> node.path,
                                  type |-> "file"], opts.filterScope, {})
               THEN <<node>> \o rest ELSE rest
          ELSE LET keptChildren == filterNodes(node.children, opts)
               IN IF keptChildren = <<>>
                  THEN IF opts.hideEmptyFolders THEN rest
                       ELSE <<[node EXCEPT !.children = <<>>]>> \o rest
                  ELSE <<[node EXCEPT !.children = keptChildren]>> \o rest

\* the useMemo of CodexSidebar
filteredTree ==
  filterNodes(treeToFilter(tree, options.rootScope), options)

\* the first fetch is about to deliver a codex with a weaves directory
SidebarTreeInit ==
  /\ rawEntries \in SidebarLists
  /\ prevTree = <<>>
  /\ treePc = "pending"

(***************************************************************************)
(* The advanced search of the viewer: the debounce effect on searchQuery   *)
(* and the search effect on (debouncedSearchQuery, semanticEnabled).       *)
(* Time passes in steps of TickMs.                                         *)
(***************************************************************************)
\* most user actions on the search box in one session
MaxInputs == 3

\* the delay of the debounce effect, and the step of the clock
DEBOUNCE_MS == 250
TickMs == 125

\* String.prototype.trim
RECURSIVE trimStart(_)
trimStart(str) ==
  IF str # <<>> /\ Head(str) = " " THEN trimStart(Tail(str)) ELSE str

RECURSIVE trimEnd(_)
trimEnd(str) ==
  IF str # <<>> /\ str[Len(str)] = " "
  THEN trimEnd(SubSeq(str, 1, Len(str) - 1)) ELSE str

trim(str) == trimEnd(trimStart(str))

\* what the user types into the search box
SearchInputs == { <<>>, <<"r">>, <<"r", " ">>, <<" ", "n">> }

\* what engine.search can resolve to for a query: no hit, or one hit that
\* names the call it answers
SearchHits(query, semantic) ==
  { <<>>, << [path |-> P_w_r, query |-> query, semantic |-> semantic] >> }

UNAVAILABLE == "Advanced search is temporarily unavailable."

\* window.clearTimeout(handle) in the cleanup of the debounce effect: the
\* handle of the previous run is the one pending timer
clearTimeoutKeeps(pending) == pending

clearTimeout(pending) == <<>>

\* the debounce effect runs for a new searchQuery: cleanup of the previous
\* run, then window.setTimeout(..., 250) with the value in its closure
debounceEffect(pending, value) ==
  Append(clearTimeout(pending), [value |-> value, elapsed |-> 0])

\* the cleanup of the search effect: cancelled = true in the closure of
\* the previous run
cancelPrevious(runs) ==
  [i \in 1..Len(runs) |-> [runs[i] EXCEPT !.cancelled = TRUE]]

\* the state setters of a completion, guarded by if (!cancelled)
unlessCancelledAlways(cancelled, next, current) == next

unlessCancelled(cancelled, next, current) ==
  IF cancelled THEN current ELSE next

\* what the catch and finally blocks of runSearch set
failureStateLoading ==
  [searchError |-> UNAVAILABLE, searchResults |-> <<>>,
   semanticSupported |-> FALSE, searchLoading |-> TRUE]

failureState ==
  [searchError |-> UNAVAILABLE, searchResults |-> <<>>,
   semanticSupported |-> FALSE, searchLoading |-> FALSE]

\* the viewer after its first render: the debounce effect has set its
\* timer for '' and the search effect has found an empty query
SearchMounted ==
  /\ searchQuery = <<>>
  /\ debouncedSearchQuery = <<>>
  /\ semanticEnabled = FALSE
  /\ searchResults = <<>>
  /\ searchError = NoError
  /\ semanticSupported = FALSE
  /\ searchLoading = FALSE
  /\ searches = <<>>
  /\ timers = debounceEffect(<<>>, <<>>)
  /\ heldMs = 0
  /\ settled = {}
  /\ inputs = <<>>

\* the search effect runs for (query, semantic): the previous run is
\* cancelled; an empty query resets results, error and loading, any other
\* query starts runSearch
SearchEffect(query, semantic) ==
  IF query = <<>>
  THEN /\ searchResults' = <<>>
       /\ searchError' = NoError
       /\ searchLoading' = FALSE
       /\ searches' = cancelPrevious(searches)
       /\ UNCHANGED semanticSupported
  ELSE /\ searchLoading' = TRUE
       /\ searchError' = NoError
       /\ searches' = Append(cancelPrevious(searches),
            [query |-> query, semantic |-> semantic, cancelled |-> FALSE,
             pc |-> "inflight", outcome |-> "pending", applied |-> FALSE])
       /\ UNCHANGED <<searchResults, semanticSupported>>

\* no dependency of the search effect changed
NoSearchEffect ==
  UNCHANGED <<searchResults, searchError, semanticSupported, searchLoading,
              searches>>

\* one user action on the search box
UserInput(kind, value) == [kind |-> kind, value |-> value]

\* the debounce effect after a render in which searchQuery became value
DebounceRerun(value) ==
  IF value # searchQuery
  THEN /\ timers' = debounceEffect(timers, value)
       /\ heldMs' = 0
  ELSE UNCHANGED <<timers, heldMs>>

\* handleSearchQueryChange(value): setSearchQueryInput(value) of the
\* filter hook and setSearchQuery(value)
HandleSearchQueryChange(value) ==
  /\ Len(inputs) < MaxInputs
  /\ value # searchQuery
  /\ options' = [options EXCEPT !.query = value]
  /\ filteredFiles' = computeFilteredFiles(filterFiles, options')
  /\ searchQuery' = value
  /\ DebounceRerun(value)
  /\ NoSearchEffect
  /\ inputs' = Append(inputs, UserInput("type", value))
  /\ UNCHANGED <<filterFiles, debouncedSearchQuery, semanticEnabled, settled>>
  /\ SearchFrame

\* onToggleSemantic: setSemanticEnabled(!semanticEnabled)
ToggleSemantic ==
  /\ Len(inputs) < MaxInputs
  /\ semanticEnabled' = ~semanticEnabled
  /\ SearchEffect(debouncedSearchQuery, semanticEnabled')
  /\ inputs' = Append(inputs, UserInput("toggle", <<>>))
  /\ UNCHANGED <<filterVars, searchQuery, debouncedSearchQuery, timers,
                 heldMs, settled>>
  /\ SearchFrame

\* handleSearchReset: resetSearchFilters(), setSearchQuery(''),
\* setSemanticEnabled(false)
HandleSearchReset ==
  /\ Len(inputs) < MaxInputs
  /\ options' = DefaultOptions
  /\ filteredFiles' = computeFilteredFiles(filterFiles, options')
  /\ searchQuery' = <<>>
  /\ semanticEnabled' = FALSE
  /\ DebounceRerun(<<>>)
  /\ IF semanticEnabled
     THEN SearchEffect(debouncedSearchQuery, FALSE)
     ELSE NoSearchEffect
  /\ inputs' = Append(inputs, UserInput("reset", <<>>))
  /\ UNCHANGED <<filterFiles, debouncedSearchQuery, settled>>
  /\ SearchFrame

Min(a, b) == IF a < b THEN a ELSE b

\* TickMs of time pass with no event
Tick ==
  /\ \/ heldMs < DEBOUNCE_MS
     \/ \E t \in 1..Len(timers) : timers[t].elapsed < DEBOUNCE_MS
  /\ heldMs' = Min(heldMs + TickMs, DEBOUNCE_MS)
  /\ timers' = [t \in 1..Len(timers) |->
       [timers[t] EXCEPT !.elapsed = Min(@ + TickMs, DEBOUNCE_MS)]]
  /\ settled' = IF heldMs' >= DEBOUNCE_MS
                THEN settled \cup { trim(searchQuery) } ELSE settled
  /\ UNCHANGED <<filterVars, searchQuery, debouncedSearchQuery,
                 semanticEnabled, inputs>>
  /\ NoSearchEffect
  /\ SearchFrame

\* the timeout callback of the debounce effect runs:
\* setDebouncedSearchQuery(searchQuery.trim()) with the searchQuery of its
\* closure, and the search effect if the debounced value changed
TimerFires(t) ==
  /\ t \in 1..Len(timers)
  /\ timers[t].elapsed >= DEBOUNCE_MS
  /\ debouncedSearchQuery' = trim(timers[t].value)
  /\ timers' = SubSeq(timers, 1, t - 1) \o SubSeq(timers, t + 1, Len(timers))
  /\ IF debouncedSearchQuery' # debouncedSearchQuery
     THEN SearchEffect(debouncedSearchQuery', semanticEnabled)
     ELSE NoSearchEffect
  /\ UNCHANGED <<filterVars, searchQuery, semanticEnabled, heldMs, settled,
                 inputs>>
  /\ SearchFrame

\* the run i has its answer; applied tells whether its setters ran
SearchDone(i, outcome) ==
  [searches EXCEPT ![i] = [@ EXCEPT !.pc = "done", !.outcome = outcome,
                                    !.applied = ~searches[i].cancelled]]

\* engine.search resolves: setSemanticSupported(engine.canUseSemantic()),
\* setSearchResults(results), setSearchLoading(false), unless cancelled
SearchResolves(i, results, canUseSemantic) ==
  /\ i \in 1..Len(searches)
  /\ searches[i].pc = "inflight"
  /\ results \in SearchHits(searches[i].query, searches[i].semantic)
  /\ semanticSupported' =
       unlessCancelled(searches[i].cancelled, canUseSemantic, semanticSupported)
  /\ searchResults' =
       unlessCancelled(searches[i].cancelled, results, searchResults)
  /\ searchLoading' =
       unlessCancelled(searches[i].cancelled, FALSE, searchLoading)
  /\ searches' = SearchDone(i, "resolved")
  /\ UNCHANGED <<filterVars, searchQuery, debouncedSearchQuery,
                 semanticEnabled, searchError, timers, heldMs, settled, inputs>>
  /\ SearchFrame

\* engine.search rejects: the catch and finally blocks, unless cancelled
SearchRejects(i) ==
  /\ i \in 1..Len(searches)
  /\ searches[i].pc = "inflight"
  /\ searchError' = unlessCancelled(searches[i].cancelled,
                                    failureState.searchError, searchError)
  /\ searchResults' = unlessCancelled(searches[i].cancelled,
                                      failureState.searchResults, searchResults)
  /\ semanticSupported' =
       unlessCancelled(searches[i].cancelled,
                       failureState.semanticSupported, semanticSupported)
  /\ searchLoading' = unlessCancelled(searches[i].cancelled,
                                      failureState.searchLoading, searchLoading)
  /\ searches' = SearchDone(i, "rejected")
  /\ UNCHANGED <<filterVars, searchQuery, debouncedSearchQuery,
                 semanticEnabled, timers, heldMs, settled, inputs>>
  /\ SearchFrame

(***************************************************************************)
(* StrandEditor and its two uses in the viewer.                            *)
(***************************************************************************)
\* most Save clicks in one session
MaxSaves == 2

\* what the user leaves in the textarea
Drafts == { <<>>, <<"y">> }

RightPanelModes == { "metadata", "editor", "graph" }

\* the file that is opened for editing, and what its download delivers
EditedFiles == { File_w_r }
EditedContents == { <<"x">>, <<"x", "x">> }

EditorInit ==
  /\ editorOpen = FALSE
  /\ rightPanelMode = "metadata"
  /\ modalDraft = Null
  /\ panelDraft = Null
  /\ consoleLog = <<>>

\* what onSave makes of the viewer's fileContent: the draft is logged only
contentAfterSaveDraft(draft, content) == draft

contentAfterSave(draft, content) == content

\* onOpenEditor: setEditorOpen(true)
OpenEditor ==
  /\ ~editorOpen
  /\ editorOpen' = TRUE
  /\ UNCHANGED <<rightPanelMode, consoleLog, viewerVars, memoryCache>>
  /\ EditorFollows
  /\ EditorFrame

\* onClose of the modal editor: setEditorOpen(false)
CloseEditor ==
  /\ editorOpen
  /\ editorOpen' = FALSE
  /\ UNCHANGED <<rightPanelMode, consoleLog, viewerVars, memoryCache>>
  /\ EditorFollows
  /\ EditorFrame

\* the buttons of the right panel: setRightPanelMode(panelMode); the editor
\* button is disabled without a selected file
SetRightPanelMode(panelMode) ==
  /\ panelMode # rightPanelMode
  /\ panelMode = "editor" => selectedFile.type # "none"
  /\ rightPanelMode' = panelMode
  /\ UNCHANGED <<editorOpen, consoleLog, viewerVars, memoryCache>>
  /\ EditorFollows
  /\ EditorFrame

\* onChange of the textarea of the modal editor: setDraft(text)
TypeInModal(text) ==
  /\ editorOpen /\ modalDraft # Null
  /\ modalDraft' = Str(text)
  /\ UNCHANGED <<editorOpen, rightPanelMode, panelDraft, consoleLog,
                 viewerVars, memoryCache>>
  /\ EditorFrame

\* onChange of the textarea of the right-panel editor: setDraft(text)
TypeInPanel(text) ==
  /\ panelDraft # Null
  /\ panelDraft' = Str(text)
  /\ UNCHANGED <<editorOpen, rightPanelMode, modalDraft, consoleLog,
                 viewerVars, memoryCache>>
  /\ EditorFrame

\* Save in the modal editor: onSave(draft, metadata) logs and closes
SaveInModal ==
  /\ editorOpen /\ modalDraft # Null
  /\ Len(consoleLog) < MaxSaves
  /\ consoleLog' = Append(consoleLog,
       [from |-> "modal", content |-> modalDraft.value,
        metadata |-> fileMetadata])
  /\ editorOpen' = FALSE
  /\ fileContent' = contentAfterSave(modalDraft.value, fileContent)
  /\ UNCHANGED <<rightPanelMode, mode, currentPath, files, viewerLoading,
                 viewerError, selectedFile, fileMetadata, url, requests,
                 memoryCache>>
  /\ EditorFollows
  /\ EditorFrame

\* Save in the right-panel editor: onSave(draft, metadata) logs and
\* switches the panel back to the metadata
SaveInPanel ==
  /\ panelDraft # Null
  /\ Len(consoleLog) < MaxSaves
  /\ consoleLog' = Append(consoleLog,
       [from |-> "panel", content |-> panelDraft.value,
        metadata |-> fileMetadata])
  /\ rightPanelMode' = "metadata"
  /\ fileContent' = contentAfterSave(panelDraft.value, fileContent)
  /\ UNCHANGED <<editorOpen, mode, currentPath, files, viewerLoading,
                 viewerError, selectedFile, fileMetadata, url, requests,
                 memoryCache>>
  /\ EditorFollows
  /\ EditorFrame

(***************************************************************************)
(* remarkStripControlFlags: the transformer visits every text node.        *)
(***************************************************************************)
\* longest text node value
MaxTextLen == 10

\* most runs of the transformer on one tree
MaxPasses == 2

\* \w or '-' (the texts use the letter a)
isFlagChar(c) == c \in { "a", "-" }

\* end of the longest run of [\w-] that starts at position i, i - 1 if none
RECURSIVE runEnd(_, _)
runEnd(str, i) ==
  IF i <= Len(str) /\ isFlagChar(str[i]) THEN runEnd(str, i + 1) ELSE i - 1

\* the last position of a match of ::[\w-]+:: that starts at i, 0 if none
matchEnd(str, i) ==
  IF i + 1 <= Len(str) /\ str[i] = ":" /\ str[i + 1] = ":"
  THEN LET e == runEnd(str, i + 2)
       IN IF e >= i + 2 /\ e + 2 <= Len(str)
             /\ str[e + 1] = ":" /\ str[e + 2] = ":"
          THEN e + 2 ELSE 0
  ELSE 0

\* the first position at or after from where the regex matches, 0 if none
RECURSIVE firstMatch(_, _)
firstMatch(str, from) ==
  IF from > Len(str) THEN 0
  ELSE IF matchEnd(str, from) # 0 THEN from
  ELSE firstMatch(str, from + 1)

\* CONTROL_FLAG_REGEX.test(value) of a global regex: the search starts at
\* lastIndex and leaves lastIndex after the match, or at 0
regexTest(value, from) ==
  LET m == IF from > Len(value) THEN 0 ELSE firstMatch(value, from + 1)
  IN [found |-> m # 0,
      lastIndex |-> IF m # 0 THEN matchEnd(value, m) ELSE 0]

\* mutant of replaceFlags: the replacement is repeated until no match is left
RECURSIVE replaceFlagsRepeated(_, _)
replaceFlagsRepeated(value, from) ==
  LET m == firstMatch(value, 1)
  IN IF m = 0 THEN value
     ELSE replaceFlagsRepeated(
            SubSeq(value, 1, m - 1)
              \o SubSeq(value, matchEnd(value, m) + 1, Len(value)), 1)

\* value.replace(CONTROL_FLAG_REGEX, ''): the matches found in one scan
\* from the left are removed
RECURSIVE replaceFlags(_, _)
replaceFlags(value, from) ==
  LET m == firstMatch(value, from)
  IN IF m = 0 THEN SubSeq(value, from, Len(value))
     ELSE SubSeq(value, from, m - 1)
            \o replaceFlags(value, matchEnd(value, m) + 1)

\* the visitor on one text node; replace leaves lastIndex at 0
visitText(value, from) ==
  LET t == regexTest(value, from)
  IN IF t.found
     THEN [value |-> replaceFlags(value, 1), lastIndex |-> 0]
     ELSE [value |-> value, lastIndex |-> t.lastIndex]

\* visit(tree, 'text', ...) over the text nodes in document order
RECURSIVE visitAll(_, _)
visitAll(nodes, from) ==
  IF nodes = <<>> THEN [values |-> <<>>, lastIndex |-> from]
  ELSE LET first == visitText(Head(nodes), from)
           rest == visitAll(Tail(nodes), first.lastIndex)
       IN [values |-> <<first.value>> \o rest.values,
           lastIndex |-> rest.lastIndex]

\* text values: every string of ':' and 'a' up to MaxTextLen, and some
\* with a hyphen or a blank
ColonTexts == UNION { [1..n -> { ":", "a" }] : n \in 0..MaxTextLen }

OtherTexts ==
  { <<":", ":", "a", "-", "a", ":", ":", " ">>,
    <<":", ":", " ", ":", ":">>,
    <<"a", " ", ":", ":", "-", ":", ":", "a">> }

\* the markdown trees: one text node, or two
TextTrees ==
  { <<t>> : t \in ColonTexts \cup OtherTexts }
    \cup { << <<":", ":", "a", ":", ":">>, t >> : t \in OtherTexts }

RemarkInit ==
  /\ textNodes \in TextTrees
  /\ sourceNodes = textNodes
  /\ lastIndex = 0
  /\ passes = 0

RemarkIdle ==
  /\ textNodes = <<>>
  /\ sourceNodes = <<>>
  /\ lastIndex = 0
  /\ passes = 0

\* transformer(tree)
Transform ==
  /\ passes < MaxPasses
  /\ LET out == visitAll(textNodes, lastIndex)
     IN /\ textNodes' = out.values
        /\ lastIndex' = out.lastIndex
  /\ passes' = passes + 1
  /\ UNCHANGED sourceNodes
  /\ RemarkFrame

\* nothing has happened in the components that stand apart
LateIdle == ShowIdle /\ OpenIdle /\ TtsIdle /\ ToastIdle

\* every hook of the later sections before the user has done anything
UiIdle == FilterIdle /\ SearchMounted /\ EditorInit /\ RemarkIdle /\ LateIdle

(***************************************************************************)
(* Specifications.                                                         *)
(***************************************************************************)
\* the tree builder on every input list
InitTree == HookInit /\ TreeInit /\ FetchIdle /\ CacheInit /\ ViewerIdle
  /\ UiIdle

NextTree == TreeLoaded \/ TreeReloaded

SpecTree == InitTree /\ [][NextTree]_vars

\* fetchTree calls, overlapping
InitFetch == HookInit /\ TreeIdle /\ FetchInit /\ CacheInit /\ ViewerIdle
  /\ UiIdle

\* a fetch that was issued settles
Settles ==
  \/ \E c \in 1..Len(calls) : GraphqlRejects(c)
  \/ \E c \in 1..Len(calls), err \in Rejections : RestRejects(c, err)
  \/ \E c \in 1..Len(calls), entries \in FetchPayloads : GraphqlResolves(c, entries)
  \/ \E c \in 1..Len(calls), entries \in FetchPayloads : RestResolves(c, entries)

NextFetch == FetchTree \/ Settles

SpecFetch == InitFetch /\ [][NextFetch]_vars

\* the mount effect calls fetchTree, and every request gets its response
FairSpecFetch ==
  /\ SpecFetch
  /\ WF_vars(FetchTree /\ calls = <<>>)
  /\ WF_vars(Settles)

\* the cache alone
InitCache == HookInit /\ TreeIdle /\ FetchIdle /\ CacheInit /\ ViewerIdle
  /\ UiIdle

NextCache ==
  \/ \E path \in CachePaths : CacheGet(path)
  \/ \E path \in CachePaths, content \in CacheContents : CacheSet(path, content)
  \/ CacheClear
  \/ CacheStats

SpecCache == InitCache /\ [][NextCache]_vars

\* the viewer's directory and file fetches, overlapping
InitViewer == HookInit /\ TreeIdle /\ FetchIdle /\ CacheInit /\ ViewerInit
  /\ UiIdle

NextViewer ==
  \/ \E path \in ViewerDirs : FetchContents(path)
  \/ \E r \in 1..Len(requests), data \in Listings(<<>>) \cup Listings(P_w) :
       ContentsResolves(r, data)
  \/ \E r \in 1..Len(requests), err \in Rejections : ContentsRejects(r, err)
  \/ \E file \in ViewerFiles : FetchFileIgnored(file)
  \/ \E file \in ViewerFiles : FetchFileCached(file)
  \/ \E file \in ViewerFiles : FetchFileContent(file)
  \/ \E r \in 1..Len(requests), content \in FileContents : FileResolves(r, content)
  \/ \E r \in 1..Len(requests), err \in Rejections : FileRejects(r, err)

SpecViewer == InitViewer /\ [][NextViewer]_vars

\* the viewer over a cache adapter whose promises can reject
NextViewerFailingCache ==
  \/ NextViewer
  \/ \E file \in ViewerFiles, err \in Rejections :
       FetchFileCacheGetRejects(file, err)
  \/ \E r \in 1..Len(requests), content \in FileContents, err \in Rejections :
       FileResolvesCacheSetRejects(r, content, err)

SpecViewerFailingCache == InitViewer /\ [][NextViewerFailingCache]_vars

\* useSearchFilter over every files list
InitFilter ==
  /\ HookInit /\ TreeIdle /\ FetchIdle /\ CacheInit /\ ViewerIdle
  /\ FilterInit /\ SearchMounted /\ EditorInit /\ RemarkIdle /\ LateIdle

NextFilter ==
  \/ \E query \in Queries : SetQuery(query)
  \/ ToggleSearchNames
  \/ ToggleCaseSensitive
  \/ \E scope \in FileFilterScopes : SetFilterScope(scope)
  \/ ResetFilters

SpecFilter == InitFilter /\ [][NextFilter]_vars

\* the search box: typing, the debounce timer, the searches in flight
InitSearch ==
  /\ HookInit /\ TreeIdle /\ FetchIdle /\ CacheInit /\ ViewerIdle
  /\ UiIdle

\* a search that was issued settles
SearchSettles ==
  \/ \E i \in 1..MaxInputs, canUseSemantic \in BOOLEAN :
       \E results \in UNION { SearchHits(q, sem) :
                                q \in { trim(v) : v \in SearchInputs },
                                sem \in BOOLEAN } :
         SearchResolves(i, results, canUseSemantic)
  \/ \E i \in 1..MaxInputs : SearchRejects(i)

TimerExpires == \E t \in 1..Len(timers) : TimerFires(t)

NextSearch ==
  \/ \E value \in SearchInputs : HandleSearchQueryChange(value)
  \/ ToggleSemantic
  \/ HandleSearchReset
  \/ Tick
  \/ TimerExpires
  \/ SearchSettles

SpecSearch == InitSearch /\ [][NextSearch]_vars

\* time passes, expired timers run, and every search gets its answer
FairSpecSearch ==
  /\ SpecSearch
  /\ WF_vars(Tick)
  /\ WF_vars(TimerExpires)
  /\ WF_vars(SearchSettles)

\* files are opened and edited
InitEditor ==
  /\ HookInit /\ TreeIdle /\ FetchIdle /\ CacheInit /\ ViewerIdle
  /\ UiIdle

NextEditor ==
  \/ \E file \in EditedFiles : FetchFileCached(file)
  \/ \E file \in EditedFiles : FetchFileContent(file)
  \/ \E r \in 1..Len(requests), content \in EditedContents :
       FileResolves(r, content)
  \/ OpenEditor
  \/ CloseEditor
  \/ \E panelMode \in RightPanelModes : SetRightPanelMode(panelMode)
  \/ \E text \in Drafts : TypeInModal(text)
  \/ \E text \in Drafts : TypeInPanel(text)
  \/ SaveInModal
  \/ SaveInPanel

SpecEditor == InitEditor /\ [][NextEditor]_vars

\* the transformer on every markdown tree
InitRemark ==
  /\ HookInit /\ TreeIdle /\ FetchIdle /\ CacheInit /\ ViewerIdle
  /\ FilterIdle /\ SearchMounted /\ EditorInit /\ RemarkInit /\ LateIdle

NextRemark == Transform

SpecRemark == InitRemark /\ [][NextRemark]_vars

\* shouldShowFile over every file, scope and extension list
InitShow ==
  HookInit /\ TreeIdle /\ FetchIdle /\ CacheInit /\ ViewerIdle /\ UiIdle

NextShow ==
  \E file \in ShowFiles, scope \in FileFilterScopes,
     extraExtensions \in ExtraExtensions :
    CallShouldShowFile(file, scope, extraExtensions)

SpecShow == InitShow /\ [][NextShow]_vars

\* the viewer at mount in either mode, files opened from the tree one at
\* a time
InitOpen ==
  HookInit /\ TreeIdle /\ FetchIdle /\ CacheInit /\ ViewerInit /\ UiIdle

NextOpen ==
  \/ UrlEffect
  \/ \E step \in pendingSteps : Continue(step)
  \/ \E fullPath \in OpenPaths : OpenFileFromTree(fullPath)
  \/ OpenResponse

SpecOpen == InitOpen /\ [][NextOpen]_vars

\* the text-to-speech hook in a browser with or without speech synthesis
InitTts ==
  /\ HookInit /\ TreeIdle /\ FetchIdle /\ CacheInit /\ ViewerIdle
  /\ FilterIdle /\ SearchMounted /\ EditorInit /\ RemarkIdle
  /\ ShowIdle /\ OpenIdle /\ TtsInit /\ ToastIdle

NextTts ==
  \/ \E call \in { "speak", "pause", "resume", "stop" } : TtsUnsupported(call)
  \/ \E text \in TtsTexts : Speak(text)
  \/ Pause
  \/ Resume
  \/ Stop
  \/ \E i \in 1..Len(utterances) : UtteranceStarts(i)
  \/ \E i \in 1..Len(utterances), event \in { "end", "error" } :
       UtteranceFinishes(i, event)

SpecTts == InitTts /\ [][NextTts]_vars

\* the toasts of one provider
InitToast ==
  HookInit /\ TreeIdle /\ FetchIdle /\ CacheInit /\ ViewerIdle /\ UiIdle

NextToast ==
  \/ \E message \in ToastTexts, type \in ToastTypes : ShowToast(message, type)
  \/ \E timer \in toastTimers : ToastExpires(timer)
  \/ \E i \in 1..Len(messages) : DismissToast(i)
  \/ ToastTick

SpecToast == InitToast /\ [][NextToast]_vars

\* the sidebar over every codex tree and every setting of the toggles
InitSidebar ==
  HookInit /\ SidebarTreeInit /\ FetchIdle /\ CacheInit /\ ViewerIdle /\ UiIdle

NextSidebar ==
  \/ TreeLoaded
  \/ \E scope \in NavigationRootScopes : SetRootScope(scope)
  \/ \E scope \in FileFilterScopes : SetFilterScope(scope)
  \/ ToggleHideEmptyFolders

SpecSidebar == InitSidebar /\ [][NextSidebar]_vars

(***************************************************************************)
(* Properties of the tree builder.                                         *)
(***************************************************************************)
\* every node of a forest in pre-order, with its depth under the synthetic
\* root, the path of its parent and the names from the root down to it
RECURSIVE Flatten(_, _, _, _)
Flatten(nodes, depth, parentPath, names) ==
  IF nodes = <<>> THEN <<>>
  ELSE LET n == Head(nodes)
       IN << [node |-> n, depth |-> depth, parentPath |-> parentPath,
              names |-> Append(names, n.name)] >>
          \o Flatten(n.children, depth + 1, n.path, Append(names, n.name))
          \o Flatten(Tail(nodes), depth, parentPath, names)

TreeNodes == Flatten(tree, 1, <<>>, <<>>)

TreeBuilt == treePc \in { "built", "rebuilt" }

\* number of markdown file items of the input
MarkdownItems(entries) ==
  Cardinality({ i \in 1..Len(entries) :
                  entries[i].type = "blob" /\ isMarkdownFile(entries[i].path) })

\* C1: the strandCount of the top-level nodes adds up to the number of
\* markdown file items of the input, and that sum is the published
\* totalStrands
C1_TotalStrands ==
  TreeBuilt =>
    /\ SumStrandCount(tree) = MarkdownItems(rawEntries)
    /\ totalStrands = MarkdownItems(rawEntries)

\* a root-level markdown file, a nested one and a file that is no markdown
C1_Witness ==
  /\ treePc = "built"
  /\ totalStrands = 2
  /\ Len(rawEntries) = 3
  /\ \E i \in 1..Len(tree) : tree[i].type = "file" /\ tree[i].strandCount = 1
  /\ \E i \in 1..Len(tree) : tree[i].type = "dir" /\ tree[i].strandCount = 1

\* C2: a directory's strandCount is the sum of its children's, a file's is 1
\* for a markdown name and 0 otherwise; a tree of directory entries only
\* has strandCount 0 everywhere
C2_StrandCounts ==
  TreeBuilt =>
    /\ \A k \in 1..Len(TreeNodes) :
         LET n == TreeNodes[k].node
         IN IF n.type = "dir"
            THEN n.strandCount = SumStrandCount(n.children)
            ELSE n.strandCount = (IF isMarkdownFile(n.name) THEN 1 ELSE 0)
    /\ (\A i \in 1..Len(rawEntries) : rawEntries[i].type = "tree")
         => \A k \in 1..Len(TreeNodes) : TreeNodes[k].node.strandCount = 0

\* a weave counting 2 strands, one of them inside a loom
C2_Witness ==
  /\ treePc = "built"
  /\ \E k \in 1..Len(TreeNodes) :
       LET n == TreeNodes[k].node
       IN /\ n.type = "dir" /\ n.strandCount = 2
          /\ \E j \in 1..Len(n.children) :
               n.children[j].type = "dir" /\ n.children[j].strandCount = 1

\* two nodes of equal depth, type and markdown-ness have equal levels
LevelIsFunction ==
  \A k, l \in 1..Len(TreeNodes) :
    LET a == TreeNodes[k]
        b == TreeNodes[l]
    IN (/\ a.depth = b.depth
        /\ a.node.type = b.node.type
        /\ isMarkdownFile(a.node.name) = isMarkdownFile(b.node.name))
       => a.node.level = b.node.level

\* levels of the directories: weave at depth 1, loom below
DirLevels ==
  \A k \in 1..Len(TreeNodes) :
    LET a == TreeNodes[k]
    IN a.node.type = "dir" =>
         a.node.level = (IF a.depth = 1 THEN "weave" ELSE "loom")

C4_RoundTrip ==
  TreeBuilt =>
    \A i \in 1..Len(rawEntries) :
      \E k \in 1..Len(TreeNodes) : Join(TreeNodes[k].names) = rawEntries[i].path

\* a nested file whose directories the input does not list
C4_Witness ==
  /\ treePc = "built"
  /\ \E i \in 1..Len(rawEntries) : rawEntries[i].path = P_w_a_s
  /\ \A i \in 1..Len(rawEntries) : rawEntries[i].path \notin { P_w, P_w_a }
  /\ \E k \in 1..Len(TreeNodes) : Len(TreeNodes[k].names) = 3

\* C5: no two nodes share a path and a child's path is its parent's path,
\* '/', and its name
C5_PathsUnique ==
  TreeBuilt =>
    /\ \A k, l \in 1..Len(TreeNodes) :
         k # l => TreeNodes[k].node.path # TreeNodes[l].node.path
    /\ \A k \in 1..Len(TreeNodes) :
         LET a == TreeNodes[k]
         IN a.depth > 1 =>
              a.node.path = a.parentPath \o <<"/">> \o a.node.name

\* two files of one loom whose directories were created on demand
C5_Witness ==
  /\ treePc = "built"
  /\ Len(rawEntries) = 2
  /\ \A i \in 1..Len(rawEntries) : rawEntries[i].path \in { P_w_a_s, P_w_a_mx }
  /\ Len(TreeNodes) = 4

\* C6: the tree built from a permutation of the items is the tree built
\* from the items
C6_OrderIndependent == treePc = "rebuilt" => tree = prevTree

(***************************************************************************)
(* Properties of fetchTree.                                                *)
(***************************************************************************)
\* the attempts of a call whose every fetch fails, for a configured branch
ExpectedAttempts(configured) ==
  LET both(b) == << [branch |-> b, via |-> "graphql"], [branch |-> b, via |-> "rest"] >>
  IN IF configured \in { "master", "main" }
     THEN both("master") \o both("main")
     ELSE both("master") \o both("main") \o both(configured)

\* C7: the attempts of a call are a prefix of GraphQL(master), REST(master),
\* GraphQL(main), REST(main), GraphQL(configured), REST(configured), a
\* duplicate branch once; every attempt but the last one failed, so REST
\* follows a failed GraphQL of its branch and nothing follows a success
C7_AttemptOrder ==
  \A c \in 1..Len(calls) :
    LET call     == calls[c]
        expected == ExpectedAttempts(call.configured)
    IN /\ Len(call.attempts) >= 1
       /\ Len(call.attempts) <= Len(expected)
       /\ \A i \in 1..Len(call.attempts) :
            /\ call.attempts[i].branch = expected[i].branch
            /\ call.attempts[i].via = expected[i].via
            /\ i < Len(call.attempts) => call.attempts[i].result = "failed"
       /\ (call.outcome = "pending") =
            (call.attempts[Len(call.attempts)].result = "pending")
       /\ (call.outcome = "success") =
            (call.attempts[Len(call.attempts)].result = "ok")

\* a call configured for a third branch that succeeded at its sixth attempt
C7_Witness ==
  \E c \in 1..Len(calls) :
    /\ calls[c].configured = "dev"
    /\ Len(calls[c].attempts) = 6
    /\ calls[c].outcome = "success"

\* GraphQL and REST failed for every candidate branch of the call
AllAttemptsFailed(call) ==
  /\ Len(call.attempts) = 2 * Len(call.candidates)
  /\ \A i \in 1..Len(call.attempts) : call.attempts[i].result = "failed"

\* C8: the step that ends a call leaves loading false, and when every fetch
\* of the call failed it leaves an error message, an empty tree and zero
\* totals; a loading hook stops loading
C8_FailureDegrades ==
  /\ [][\A c \in 1..Len(calls) :
          (calls[c].pc # "done" /\ calls'[c].pc = "done") =>
            /\ loading' = FALSE
            /\ AllAttemptsFailed(calls'[c]) =>
                 /\ error' # NoError
                 /\ tree' = <<>>
                 /\ totalStrands' = 0
                 /\ totalWeaves' = 0]_vars
  /\ (loading ~> ~loading)

\* a call whose six fetches failed with a thrown value that is no Error,
\* after an earlier call had published a tree
C8_Witness ==
  /\ Len(calls) = 2
  /\ calls[1].outcome = "success"
  /\ AllAttemptsFailed(calls[2])
  /\ calls[2].lastError.kind = "undefined"
  /\ calls[2].pc = "done"
  /\ error = "Unable to fetch Git tree from GitHub."
  /\ tree = <<>>

(***************************************************************************)
(* Properties of the viewer's fetches.                                     *)
(***************************************************************************)
\* request r is overtaken: a request of its kind issued after it has
\* already completed with a result
Overtaken(r) ==
  \E q \in (r + 1)..Len(requests) :
    /\ requests[q].kind = requests[r].kind
    /\ requests[q].pc = "done"
    /\ requests[q].outcome = "success"

\* C9: the completion of a superseded request never overwrites what a newer
\* request of its kind has put in files / currentPath or in selectedFile /
\* fileContent
C9_OnlyLatestCommits ==
  [][\A r \in 1..Len(requests) :
       (requests[r].pc = "inflight" /\ requests'[r].pc = "done" /\ Overtaken(r))
         => IF requests[r].kind = "contents"
            THEN UNCHANGED <<files, currentPath>>
            ELSE UNCHANGED <<selectedFile, fileContent>>]_vars

\* the outcomes of a fetchFileContent call in which a cache call rejected
CacheFailures == { "cache-get-rejected", "cache-set-rejected" }

\* request r ends in this step
Ends(r) ==
  /\ r \in 1..Len(requests')
  /\ requests'[r].pc = "done"
  /\ r \in 1..Len(requests) => requests[r].pc = "inflight"

\* C12: when getCachedStrand or setCachedStrand rejects while a file is
\* opened, the call still ends with the file shown (selectedFile is the
\* file) and with no error
C12_CacheFailureSwallowed ==
  [][\A r \in 1..MaxRequests :
       (Ends(r) /\ requests'[r].outcome \in CacheFailures)
         => /\ viewerError' = NoError
            /\ selectedFile' = requests'[r].file]_vars

(***************************************************************************)
(* Properties of the strand cache.                                         *)
(***************************************************************************)
\* what a get of path must return after the calls of history: the content
\* of the latest set of path since the latest clear
RECURSIVE LatestSet(_, _)
LatestSet(history, path) ==
  IF history = <<>> THEN Null
  ELSE LET last == history[Len(history)]
       IN IF last.op = "clear" THEN Null
          ELSE IF last.op = "set" /\ last.path = path THEN Str(last.content)
          ELSE LatestSet(SubSeq(history, 1, Len(history) - 1), path)

\* C10: a get of a non-empty path returns the content of the latest set of
\* that path since the latest clear, null when there is none; a get of the
\* empty path returns null and a set of the empty path stores nothing
C10_CacheReadsLatest ==
  /\ \A i \in 1..Len(cacheLog) :
       cacheLog[i].op = "get" =>
         cacheLog[i].result =
           (IF cacheLog[i].path = <<>> THEN Null
            ELSE LatestSet(SubSeq(cacheLog, 1, i - 1), cacheLog[i].path))
  /\ \A path \in CachePaths \ { <<>> } :
       getCachedStrand(memoryCache, path) = LatestSet(cacheLog, path)
  /\ <<>> \notin DOMAIN memoryCache

\* an empty content is set over another one, another path is set, and the
\* first path is read
C10_Witness ==
  /\ Len(cacheLog) = 4
  /\ cacheLog[1].op = "set" /\ cacheLog[1].path = P_w_r /\ cacheLog[1].content = <<"x">>
  /\ cacheLog[2].op = "set" /\ cacheLog[2].path = P_w_r /\ cacheLog[2].content = <<>>
  /\ cacheLog[3].op = "set" /\ cacheLog[3].path = P_w_n
  /\ cacheLog[4].op = "get" /\ cacheLog[4].path = P_w_r
  /\ cacheLog[4].result = Str(<<>>)

\* the non-empty paths that the calls of history have left cached
CachedPaths(history) ==
  { path \in CachePaths \ { <<>> } : LatestSet(history, path) # Null }

RECURSIVE SumLatestLength(_, _)
SumLatestLength(history, paths) ==
  IF paths = {} THEN 0
  ELSE LET q == CHOOSE x \in paths : TRUE
       IN Len(LatestSet(history, q).value)
            + SumLatestLength(history, paths \ {q})

\* C11: getCodexCacheStats returns the number of distinct non-empty paths
\* cached by the calls so far and the sum of the lengths of their current
\* contents (an overwrite replaces a path's contribution); the stats read
\* right after a clear are 0 and 0
C11_CacheStats ==
  /\ \A i \in 1..Len(cacheLog) :
       cacheLog[i].op = "stats" =>
         LET before == SubSeq(cacheLog, 1, i - 1)
         IN /\ cacheLog[i].result.totalItems = Cardinality(CachedPaths(before))
            /\ cacheLog[i].result.totalBytes =
                 SumLatestLength(before, CachedPaths(before))
            /\ (i > 1 /\ cacheLog[i - 1].op = "clear")
                 => cacheLog[i].result = CodexCacheStats(0, 0)
  /\ getCodexCacheStats(memoryCache) =
       CodexCacheStats(Cardinality(CachedPaths(cacheLog)),
                       SumLatestLength(cacheLog, CachedPaths(cacheLog)))

\* a path is set, overwritten by a shorter content, a second path is set,
\* and the stats count two items and the bytes of the current contents
C11_Witness ==
  /\ Len(cacheLog) = 4
  /\ cacheLog[1].op = "set" /\ cacheLog[1].path = P_w_r
  /\ cacheLog[1].content = <<"x", "x">>
  /\ cacheLog[2].op = "set" /\ cacheLog[2].path = P_w_r
  /\ cacheLog[2].content = <<"x">>
  /\ cacheLog[3].op = "set" /\ cacheLog[3].path = P_w_n
  /\ cacheLog[3].content = <<"x", "x">>
  /\ cacheLog[4].op = "stats"
  /\ cacheLog[4].result = CodexCacheStats(2, 3)

(***************************************************************************)
(* Properties of useSearchFilter.                                          *)
(***************************************************************************)
\* the query predicate: options.query is a substring of the name or of the
\* path, letter case ignored unless caseSensitive is set
QueryPredicate(f) ==
  IF options.caseSensitive
  THEN includes(f.name, options.query) \/ includes(f.path, options.query)
  ELSE \/ includes(ToLowerCase(f.name), ToLowerCase(options.query))
       \/ includes(ToLowerCase(f.path), ToLowerCase(options.query))

\* the scope predicate for options.filterScope, decided by extension
ScopePredicate(f) == shouldShowFile(f, options.filterScope, {})

\* C13: filteredFiles is the files list restricted to the files that
\* satisfy the scope predicate and the query predicate
C13_FilterIsScopeAndQuery ==
  filteredFiles =
    SelectSeq(filterFiles, LAMBDA f : ScopePredicate(f) /\ QueryPredicate(f))

(***************************************************************************)
(* Properties of the advanced search.                                      *)
(***************************************************************************)
searchState == <<searchResults, searchError, semanticSupported, searchLoading>>

\* the run i gets its answer in this step
SearchCompletes(i) ==
  /\ i \in 1..Len(searches)
  /\ searches[i].pc = "inflight"
  /\ searches'[i].pc = "done"

\* the run i is the one started for the current query and semantic flag
CurrentSearch(i) ==
  /\ i = Len(searches)
  /\ searches[i].query = debouncedSearchQuery
  /\ searches[i].semantic = semanticEnabled

\* C14: when the search for the current query rejects, searchError is the
\* 'temporarily unavailable' message, searchResults is empty,
\* semanticSupported and searchLoading are false; with an empty debounced
\* query no search is started and results, error and loading are reset
C14_SearchFailureDegrades ==
  /\ [][\A i \in 1..MaxInputs :
          (SearchCompletes(i) /\ CurrentSearch(i)
             /\ searches'[i].outcome = "rejected")
            => /\ searchError' = UNAVAILABLE
               /\ searchResults' = <<>>
               /\ semanticSupported' = FALSE
               /\ searchLoading' = FALSE]_vars
  /\ [][debouncedSearchQuery' = <<>> => Len(searches') = Len(searches)]_vars
  /\ [](debouncedSearchQuery = <<>>
          => /\ searchResults = <<>>
             /\ searchError = NoError
             /\ searchLoading = FALSE
             /\ \A i \in 1..Len(searches) :
                  searches[i].pc = "inflight" => searches[i].cancelled)

\* a search resolved with a hit, then the search for the next query
\* rejected while it was current
C14_Witness ==
  /\ Len(searches) = 2
  /\ searches[1].outcome = "resolved" /\ searches[1].applied
  /\ searches[2].outcome = "rejected" /\ searches[2].applied
  /\ searches[2].query = debouncedSearchQuery
  /\ searchError = UNAVAILABLE
  /\ searchResults = <<>>
  /\ ~searchLoading

\* C19: the answer of a search that is no longer the one for the current
\* (debouncedSearchQuery, semanticEnabled) changes none of searchResults,
\* searchError, semanticSupported and searchLoading
C19_StaleSearchDiscarded ==
  [][\A i \in 1..MaxInputs :
       (SearchCompletes(i) /\ ~CurrentSearch(i)) => UNCHANGED searchState]_vars

\* the first search rejected after the second one, started for another
\* query, had resolved with a hit: the hit and the null error are kept
C19_Witness ==
  /\ Len(searches) = 2
  /\ searches[1].pc = "done" /\ searches[1].outcome = "rejected"
  /\ ~searches[1].applied
  /\ searches[2].outcome = "resolved" /\ searches[2].applied
  /\ searches[1].query # searches[2].query
  /\ searchResults # <<>>
  /\ searchResults[1].query = debouncedSearchQuery
  /\ searchError = NoError
  /\ ~searchLoading

\* C20: debouncedSearchQuery only changes to the trimmed searchQuery once
\* searchQuery has kept its value for DEBOUNCE_MS; only values held that
\* long are searched for; and once the input stops changing
\* debouncedSearchQuery becomes the trimmed input for good
C20_Debounced ==
  /\ [][debouncedSearchQuery' # debouncedSearchQuery
          => /\ debouncedSearchQuery' = trim(searchQuery)
             /\ heldMs >= DEBOUNCE_MS]_vars
  /\ [](/\ debouncedSearchQuery \in settled \cup { <<>> }
        /\ \A i \in 1..Len(searches) : searches[i].query \in settled)
  /\ <>[](debouncedSearchQuery = trim(searchQuery))

\* 'r' was typed and replaced by ' n' before the delay had passed: only
\* 'n' was copied and searched for
C20_Witness ==
  /\ inputs = << UserInput("type", <<"r">>), UserInput("type", <<" ", "n">>) >>
  /\ <<"r">> \notin settled
  /\ debouncedSearchQuery = <<"n">>
  /\ Len(searches) = 1
  /\ searches[1].query = <<"n">>

(***************************************************************************)
(* Properties of the editor.                                               *)
(***************************************************************************)
\* the user types into a mounted editor in this step (no fetch is started
\* or answered in it)
Typed ==
  /\ requests' = requests
  /\ \/ modalDraft # Null /\ modalDraft' # Null /\ modalDraft' # modalDraft
     \/ panelDraft # Null /\ panelDraft' # Null /\ panelDraft' # panelDraft

\* Save is pressed in this step
Saved == Len(consoleLog') > Len(consoleLog)

\* C15: typing into a StrandEditor and pressing Save change neither
\* fileContent nor fileMetadata nor the strand cache and start no request;
\* Save closes the modal editor or puts the right panel back to metadata
C15_EditingIsLocal ==
  [][(Typed \/ Saved)
       => /\ UNCHANGED <<fileContent, fileMetadata, selectedFile>>
          /\ UNCHANGED <<memoryCache, cacheLog, requests, calls>>
          /\ Saved =>
               IF consoleLog'[Len(consoleLog')].from = "modal"
               THEN ~editorOpen' /\ UNCHANGED rightPanelMode
               ELSE rightPanelMode' = "metadata" /\ UNCHANGED editorOpen]_vars

\* w/r.md was downloaded as 'x', 'y' was typed in the modal editor and
\* saved: the content and the cache still hold 'x'
C15_Witness ==
  /\ Len(consoleLog) = 1
  /\ consoleLog[1].from = "modal"
  /\ consoleLog[1].content = <<"y">>
  /\ selectedFile = File_w_r
  /\ fileContent = <<"x">>
  /\ getCachedStrand(memoryCache, P_w_r) = Str(<<"x">>)
  /\ ~editorOpen

(***************************************************************************)
(* Properties of remarkStripControlFlags.                                  *)
(***************************************************************************)
\* str has a substring ::[word characters or hyphens]::
ContainsFlag(str) ==
  \E i, j \in 1..Len(str) :
    /\ i + 3 <= j /\ j + 1 <= Len(str)
    /\ str[i] = ":" /\ str[i + 1] = ":"
    /\ str[j] = ":" /\ str[j + 1] = ":"
    /\ \A k \in (i + 2)..(j - 1) : isFlagChar(str[k])

\* C16: after the transform no text node contains a control-flag token, a
\* text node without a token keeps its value, and a second run of the
\* transform changes nothing
C16_FlagsStripped ==
  [][/\ \A n \in 1..Len(textNodes') : ~ContainsFlag(textNodes'[n])
     /\ \A n \in 1..Len(textNodes) :
          ~ContainsFlag(textNodes[n]) => textNodes'[n] = textNodes[n]
     /\ passes >= 1 => textNodes' = textNodes]_vars

(***************************************************************************)
(* Properties of the sidebar and of the totals.                            *)
(***************************************************************************)
\* the children of the top-level node whose path is 'weaves'
ChildrenOfWeaves ==
  IF \E n \in 1..Len(tree) : tree[n].path = WEAVES
  THEN tree[CHOOSE n \in 1..Len(tree) : tree[n].path = WEAVES].children
  ELSE <<>>

\* C17: with scope 'fabric' (Entire Repo) the sidebar tree is made from
\* every top-level node of the knowledge tree, with scope 'weaves' (Weaves
\* Only) from the children of the top-level node with path 'weaves'
C17_ScopeAsLabelled ==
  treePc = "built" =>
    filteredTree =
      filterNodes(IF options.rootScope = "fabric" THEN tree
                  ELSE ChildrenOfWeaves, options)

\* C18: after a successful fetch totalWeaves is the number of weave-level
\* directory nodes at the top of the built tree; top-level files and other
\* entries are not counted
C18_TotalWeaves ==
  treePc = "built" =>
    totalWeaves =
      Cardinality({ n \in 1..Len(tree) :
                      tree[n].type = "dir" /\ tree[n].level = "weave" })

(***************************************************************************)
(* Properties of the viewer's file loading.                                *)
(***************************************************************************)
\* request r is issued in this step and asks the network
AsksNetwork(r) ==
  /\ r = Len(requests) + 1
  /\ Len(requests') = r
  /\ requests'[r].pc = "inflight"

\* C21: a network request for a file is issued only when the cache has no
\* entry for file.path; a successful download is stored under file.path and
\* a failed one stores nothing, so a path that was downloaded is never asked
\* of the network again
C21_CacheFirst ==
  [][\A r \in 1..MaxRequests :
       /\ (AsksNetwork(r) /\ requests'[r].kind = "file")
            => requests'[r].path \notin DOMAIN memoryCache
       /\ (Ends(r) /\ requests'[r].kind = "file"
              /\ requests'[r].outcome = "success")
            => /\ requests'[r].path \in DOMAIN memoryCache'
               /\ memoryCache'[requests'[r].path].content = fileContent'
       /\ (Ends(r) /\ requests'[r].outcome = "failure")
            => memoryCache' = memoryCache]_vars

(***************************************************************************)
(* Properties of shouldShowFile.                                           *)
(***************************************************************************)
\* the text of name from its last dot on, in lower case; empty without a dot
Extension(name) ==
  LET dots == { i \in 1..Len(name) : name[i] = "." }
  IN IF dots = {} THEN <<>>
     ELSE LET last == CHOOSE i \in dots : \A k \in dots : k <= i
          IN ToLowerCase(SubSeq(name, last, Len(name)))

\* the extension set a scope stands for
ScopeExtensions(scope) ==
  CASE scope = "strands" -> MARKDOWN_EXTENSIONS
    [] scope = "media" -> MEDIA_EXTENSIONS
    [] scope = "configs" -> TEXT_FILE_EXTENSIONS

RECURSIVE AllNodes(_)
AllNodes(nodes) ==
  IF nodes = <<>> THEN {}
  ELSE { Head(nodes) } \cup AllNodes(Head(nodes).children)
         \cup AllNodes(Tail(nodes))

\* a file name satisfies the scope
InScope(name, scope) ==
  scope = "all" \/ Extension(name) \in ScopeExtensions(scope)

\* the paths of the files below a directory node that satisfy the scope
MatchingBelow(node, scope) ==
  { f.path : f \in { n \in AllNodes(node.children) :
                       n.type = "file" /\ InScope(n.name, scope) } }

\* the tree that the root-scope step hands to the filter
ScopedTree == treeToFilter(tree, options.rootScope)

PathsOf(nodes, type) == { n.path : n \in { m \in nodes : m.type = type } }

\* C23: in filteredTree the files are the files of the scoped tree that
\* satisfy the filter scope; with 'Hide empty folders' on the directories
\* are those with a file below them that satisfies the scope, at every
\* depth, and with it off every directory of the scoped tree is kept
C23_FilteredTree ==
  treePc = "built" =>
    LET kept == AllNodes(filteredTree)
        scoped == AllNodes(ScopedTree)
    IN /\ \A n \in kept : n.type = "file" => InScope(n.name, options.filterScope)
       /\ PathsOf(kept, "file") =
            { n.path : n \in { m \in scoped :
                 m.type = "file" /\ InScope(m.name, options.filterScope) } }
       /\ options.hideEmptyFolders =>
            /\ \A n \in kept : n.type = "dir" =>
                 MatchingBelow(n, options.filterScope) # {}
            /\ PathsOf(kept, "dir") =
                 { n.path : n \in { m \in scoped :
                      /\ m.type = "dir"
                      /\ MatchingBelow(m, options.filterScope) # {} } }
       /\ ~options.hideEmptyFolders =>
            PathsOf(kept, "dir") = PathsOf(scoped, "dir")

\* under 'strands' with empty folders hidden, weaves keeps r.md and loses
\* its directory a, which holds a text file only
C23_Witness ==
  /\ treePc = "built"
  /\ options.hideEmptyFolders
  /\ options.filterScope = "strands"
  /\ options.rootScope = "weaves"
  /\ \E n \in AllNodes(filteredTree) : n.path = P_weaves_r
  /\ \E n \in AllNodes(ScopedTree) : n.type = "dir" /\ n.path = WEAVES \o <<"/", "a">>
  /\ \A n \in AllNodes(filteredTree) : n.path # WEAVES \o <<"/", "a">>

\* C24: a failed fetchContents leaves files and currentPath as they were and
\* returns the empty list, a failed fetchFileContent leaves selectedFile,
\* fileContent and fileMetadata as they were; both set error to a message
\* and loading to false
C24_FailureLeavesState ==
  [][\A r \in 1..MaxRequests :
       (Ends(r) /\ requests'[r].outcome = "failure")
         => /\ requests'[r].kind = "contents"
                 => /\ UNCHANGED <<files, currentPath>>
                    /\ requests'[r].returned = <<>>
            /\ requests'[r].kind = "file"
                 => UNCHANGED <<selectedFile, fileContent, fileMetadata>>
            /\ viewerError' \notin { NoError, "" }
            /\ viewerLoading' = FALSE]_vars

\* a listing and a file are shown, then a directory fetch fails
C24_Witness ==
  /\ Len(requests) = 3
  /\ requests[1].kind = "contents" /\ requests[1].outcome = "success"
  /\ requests[2].kind = "file" /\ requests[2].outcome = "success"
  /\ requests[3].kind = "contents" /\ requests[3].outcome = "failure"
  /\ requests[3].path = <<>>
  /\ files # <<>> /\ currentPath = P_w
  /\ selectedFile = File_w_r /\ fileContent = <<"x">>
  /\ viewerError # NoError

\* C27: the viewer's loading flag is true exactly while some fetchContents
\* or fetchFileContent request is in flight
C27_LoadingWhileInFlight ==
  viewerLoading = (\E r \in 1..Len(requests) : requests[r].pc = "inflight")

\* C28: after every fetchFileContent that shows a file, selectedFile is the
\* file, fileContent its content, and fileMetadata the metadata parsed from
\* that content, empty when the file is no markdown file
C28_FileStateCoherent ==
  [][\A r \in 1..MaxRequests :
       (Ends(r) /\ requests'[r].kind = "file"
          /\ requests'[r].outcome \in { "success", "cached" })
         => /\ selectedFile' = requests'[r].file
            /\ fileMetadata' =
                 (IF isMarkdownFile(selectedFile'.name)
                  THEN parseWikiMetadata(fileContent') ELSE NoMetadata)]_vars

(***************************************************************************)
(* Properties of openFileFromTree.                                         *)
(***************************************************************************)
\* no request so far has failed
AllSucceeded ==
  \A r \in 1..Len(requests) : requests[r].outcome \in { "success", "cached" }

\* the requests for path of the given kind, in the order they were issued
RequestsFor(kind, path) ==
  { r \in 1..Len(requests) : requests[r].kind = kind /\ requests[r].path = path }

\* C29: openFileFromTree(p) loads the listing of p's parent directory first
\* when that is not the current directory and then the file, and when every
\* load succeeds the viewer comes to rest with selectedFile.path = p without
\* its leading slashes and currentPath = the parent directory of p, in
\* modal mode and in page mode
C29_OpenFromTree ==
  (Quiet /\ opens # <<>> /\ AllSucceeded) =>
    LET open == opens[Len(opens)]
    IN /\ selectedFile.path = stripLeadingSlashes(open.fullPath)
       /\ currentPath = open.parentDir
       /\ open.listed =>
            \E c \in RequestsFor("contents", open.parentDir) :
              \E f \in RequestsFor("file", open.file.path) : c < f

(***************************************************************************)
(* Properties of useTextToSpeech.                                          *)
(***************************************************************************)
\* C25: isPlaying and isPaused are never both true, stop leaves both false,
\* and without speech synthesis every call leaves both false
C25_TtsFlags ==
  /\ ~(isPlaying /\ isPaused)
  /\ lastTts.kind = "stop" => ~isPlaying /\ ~isPaused
  /\ ~isSupported => ~isPlaying /\ ~isPaused

\* an utterance is paused and resumed, and stop is called while it plays
C25_Witness ==
  /\ isSupported
  /\ lastTts.kind = "stop"
  /\ Len(utterances) = 2
  /\ utterances[2].status = "interrupted"
  /\ synthPaused

\* C26: while an utterance is being spoken and shown as playing, the end or
\* error event of an earlier utterance that speak() interrupted does not end
\* isPlaying
C26_LateEventIgnored ==
  [][\A k \in 1..Len(utterances) : \A j \in 1..Len(utterances) :
       (/\ utterances[k].status = "speaking"
        /\ isPlaying
        /\ utterances[j].status = "interrupted"
        /\ utterances'[j].status = "done")
         => isPlaying']_vars

(***************************************************************************)
(* Properties of the toasts.                                               *)
(***************************************************************************)
\* C30: an expiry or a dismissal removes exactly one toast, the one it is
\* for, and leaves every other toast on display, also when toasts were
\* shown in quick succession
C30_ToastRemovedAlone ==
  [][Len(messages') < Len(messages) =>
       \E i \in 1..Len(messages) :
         messages' = SubSeq(messages, 1, i - 1)
                       \o SubSeq(messages, i + 1, Len(messages))]_vars

=============================================================================
